---- MODULE Spec2Model ----
(***************************************************************************)
(* Poseidon Omni-spect: the annotation overlay (AnnotationOverlay), the    *)
(* 360 player's camera (Video360Player), the App's annotation collection,  *)
(* its persistence (storage) and the spherical geometry                    *)
(* (annotationGeometry).                                                   *)
(*                                                                         *)
(* Angles are whole multiples of 45 degrees (one unit = pi/4); sines and   *)
(* cosines are in thousandths.  Video times are in tenths of a second.     *)
(***************************************************************************)
EXTENDS Integers, Sequences, FiniteSets, TLC

\* ------------------------------------------------------------------ bounds
\* Length of the (looping) video, in tenths of a second.
Duration == 10
\* Playback is followed from one reported time to the next, this far apart.
TimeStep == 10
\* Largest |theta| (in units of 45 degrees) the pan gesture is followed to.
MaxTheta == 2
\* Largest number of annotations whose creation is followed.
MaxAnnotations == 1
\* Largest number of records in a stored collection.
MaxStored == 2

\* ------------------------------------------------------- program constants
\* 1000 * tan(75 degrees / 2): the camera's vertical field of view.
TanHalfFov == 767
\* The 1.0 s tolerance of the active window, in tenths of a second.
ActiveWindow == 10
\* 1000000 * pi / 180: a degree in millionths of a radian.
MicroRadiansPerDegree == 17453

\* The container's client size (App's viewportSize), fixed for a run.
Viewport == [width |-> 2000, height |-> 1000]

Null == [null |-> TRUE]

\* --------------------------------------------------------------- arithmetic
Abs(a) == IF a < 0 THEN -a ELSE a

\* Division truncating toward zero.
Div(a, b) == IF a >= 0 THEN a \div b ELSE -((-a) \div b)

Clamp(lo, hi, a) == IF a < lo THEN lo ELSE IF a > hi THEN hi ELSE a

\* Math.sin / Math.cos on units of 45 degrees, in thousandths.
Sin(a) ==
  LET m == a % 8
  IN  CASE m = 0 -> 0   [] m = 1 -> 707   [] m = 2 -> 1000  [] m = 3 -> 707
        [] m = 4 -> 0   [] m = 5 -> -707  [] m = 6 -> -1000 [] m = 7 -> -707

Cos(a) == Sin(a + 2)

Dot(u, v) == Div(u[1] * v[1] + u[2] * v[2] + u[3] * v[3], 1000)

\* The unit vector of a direction {phi, theta}.
DirVec(d) ==
  << Div(Cos(d.phi) * Sin(d.theta), 1000),
     Sin(d.phi),
     Div(Cos(d.phi) * Cos(d.theta), 1000) >>

\* The camera's right and up axes after lookAt(DirVec(pose)) with up = +Y.
CamRight(pose) == << -Cos(pose.theta), 0, Sin(pose.theta) >>

CamUp(pose) ==
  << Div(-(Sin(pose.phi) * Sin(pose.theta)), 1000),
     Cos(pose.phi),
     Div(-(Sin(pose.phi) * Cos(pose.theta)), 1000) >>

\* Math.atan2(x, z) to the nearest unit, in -3..4 (that is (-pi, pi]); a
\* direction just past -pi rounds to -4.
Atan2(x, z) ==
  LET ax == Abs(x)
      az == Abs(z)
      base == IF ax * 1000 <= az * 414 THEN (IF z >= 0 THEN 0 ELSE 4)
              ELSE IF az * 1000 < ax * 414 THEN 2
              ELSE IF z >= 0 THEN 1 ELSE 3
  IN  IF x < 0 THEN -base ELSE base

\* Math.asin(y / n) to the nearest unit, in -2..2; n2 is n squared.
Asin(y, n2) ==
  LET yy == Div(y * y, 1000)
      nn == Div(n2, 1000)
      mag == IF yy * 1000 < nn * 146 THEN 0
             ELSE IF yy * 1000 < nn * 854 THEN 1 ELSE 2
  IN  IF y < 0 THEN -mag ELSE mag

\* 1000 * aspect * tan(fov / 2) of the camera for a viewport.
TanHalfFovX(w, h) == Div(TanHalfFov * w, h)

\* --------------------------------------------------------------- geometry
\* A variant of screenToWorldDirection that measures theta toward the other
\* side (atan2(-x, z)).
screenToWorldDirectionMirrored(screenX, screenY, screenWidth, screenHeight, cam) ==
  LET ndcX == Div(screenX * 2000, screenWidth) - 1000
      ndcY == 1000 - Div(screenY * 2000, screenHeight)
      hx == Div(ndcX * TanHalfFovX(screenWidth, screenHeight), 1000)
      hy == Div(ndcY * TanHalfFov, 1000)
      f == DirVec(cam)
      r == CamRight(cam)
      u == CamUp(cam)
      ray == [i \in 1..3 |-> f[i] + Div(hx * r[i], 1000) + Div(hy * u[i], 1000)]
      n2 == ray[1] * ray[1] + ray[2] * ray[2] + ray[3] * ray[3]
  IN  [phi |-> Asin(ray[2], n2), theta |-> Atan2(-ray[1], ray[3])]

\* screenToWorldDirection: NDC of the pointer, the ray through it under the
\* camera's orientation, and the ray's spherical angles.
screenToWorldDirection(screenX, screenY, screenWidth, screenHeight, cam) ==
  LET ndcX == Div(screenX * 2000, screenWidth) - 1000
      ndcY == 1000 - Div(screenY * 2000, screenHeight)
      hx == Div(ndcX * TanHalfFovX(screenWidth, screenHeight), 1000)
      hy == Div(ndcY * TanHalfFov, 1000)
      f == DirVec(cam)
      r == CamRight(cam)
      u == CamUp(cam)
      ray == [i \in 1..3 |-> f[i] + Div(hx * r[i], 1000) + Div(hy * u[i], 1000)]
      n2 == ray[1] * ray[1] + ray[2] * ray[2] + ray[3] * ray[3]
  IN  [phi |-> Asin(ray[2], n2), theta |-> Atan2(ray[1], ray[3])]

\* A variant of worldDirectionToScreen without the test for points behind
\* the camera: the direction is projected through the camera's centre.
worldDirectionToScreenWithoutDepthTest(worldDirection, screenWidth, screenHeight, cam) ==
  LET v == DirVec(worldDirection)
      depth == Dot(v, DirVec(cam))
      xv == Dot(v, CamRight(cam))
      yv == Dot(v, CamUp(cam))
  IN  IF depth = 0 THEN Null
      ELSE LET clipX == Div(Div(xv * 1000, depth) * 1000,
                            TanHalfFovX(screenWidth, screenHeight))
               clipY == Div(Div(yv * 1000, depth) * 1000, TanHalfFov)
           IN  IF Abs(clipX) > 3000 \/ Abs(clipY) > 3000 THEN Null
               ELSE [x |-> Div((clipX + 1000) * screenWidth, 2000),
                     y |-> Div((1000 - clipY) * screenHeight, 2000)]

\* worldDirectionToScreen: the direction's vector projected through the
\* camera; Null behind the camera (clip z > 1) or beyond |clip x|, |clip y| > 3.
worldDirectionToScreen(worldDirection, screenWidth, screenHeight, cam) ==
  LET v == DirVec(worldDirection)
      depth == Dot(v, DirVec(cam))
      xv == Dot(v, CamRight(cam))
      yv == Dot(v, CamUp(cam))
  IN  IF depth <= 0 THEN Null
      ELSE LET clipX == Div(Div(xv * 1000, depth) * 1000,
                            TanHalfFovX(screenWidth, screenHeight))
               clipY == Div(Div(yv * 1000, depth) * 1000, TanHalfFov)
           IN  IF Abs(clipX) > 3000 \/ Abs(clipY) > 3000 THEN Null
               ELSE [x |-> Div((clipX + 1000) * screenWidth, 2000),
                     y |-> Div((1000 - clipY) * screenHeight, 2000)]

\* Math.atan2(ndc, 1) * (fov / 2) to the nearest unit: at most 29.5 degrees,
\* which is nearer to one unit than to none from ndc = 0.684 on.
legacyAngle(ndc) == IF ndc >= 684 THEN 1 ELSE IF ndc <= -684 THEN -1 ELSE 0

\* A variant of legacyBoxToWorldDirection that gives no direction without a
\* recorded pose.
legacyBoxToWorldDirectionIfPosed(box, rotation) ==
  IF rotation # Null
  THEN [phi |-> Clamp(-2, 2, rotation.phi
                             + legacyAngle(-((box.y + Div(box.height, 2) - 500) * 2))),
        theta |-> rotation.theta
                  + legacyAngle((box.x + Div(box.width, 2) - 500) * 2)]
  ELSE Null

\* A variant of legacyBoxToWorldDirection that approximates from the box
\* alone when no pose is recorded.
legacyBoxToWorldDirectionFromBox(box, rotation) ==
  [phi |-> Clamp(-2, 2, (IF rotation # Null THEN rotation.phi ELSE 0)
                        + legacyAngle(-((box.y + Div(box.height, 2) - 500) * 2))),
   theta |-> (IF rotation # Null THEN rotation.theta ELSE 0)
             + legacyAngle((box.x + Div(box.width, 2) - 500) * 2)]

\* legacyBoxToWorldDirection: the box centre's offset from the viewport centre
\* added to the recorded pose; {0, 0} without a recorded pose.
legacyBoxToWorldDirection(box, rotation) ==
  LET centerX == box.x + Div(box.width, 2)
      centerY == box.y + Div(box.height, 2)
      ndcX == (centerX - 500) * 2
      ndcY == -((centerY - 500) * 2)
  IN  IF rotation # Null
      THEN [phi |-> Clamp(-2, 2, rotation.phi + legacyAngle(ndcY)),
            theta |-> rotation.theta + legacyAngle(ndcX)]
      ELSE [phi |-> 0, theta |-> 0]

\* ----------------------------------------------------------------- storage
\* A record needs the approximation: it has a box and no worldDirection.
needsApproximation(ann) == ann.worldDirection = Null /\ ann.box # Null

\* A variant of migrateLegacyAnnotations that replaces the box by the
\* direction.
migrateLegacyAnnotationsDroppingBox(anns) ==
  [i \in 1..Len(anns) |->
     IF anns[i].worldDirection # Null THEN anns[i]
     ELSE IF anns[i].box # Null
          THEN [anns[i] EXCEPT !.worldDirection =
                  legacyBoxToWorldDirection(anns[i].box, anns[i].cameraRotation),
                               !.box = Null]
          ELSE anns[i]]

\* A variant of migrateLegacyAnnotations that approximates the direction of
\* every record with a box, whether it has a worldDirection or not.
migrateLegacyAnnotationsEveryBox(anns) ==
  [i \in 1..Len(anns) |->
     IF anns[i].box # Null
     THEN [anns[i] EXCEPT !.worldDirection =
             legacyBoxToWorldDirection(anns[i].box, anns[i].cameraRotation)]
     ELSE anns[i]]

\* migrateLegacyAnnotations: a record with a worldDirection, or without a box,
\* is returned as it is; a record with only a box gains the approximated
\* direction.
migrateLegacyAnnotations(anns) ==
  [i \in 1..Len(anns) |->
     IF anns[i].worldDirection # Null THEN anns[i]
     ELSE IF anns[i].box # Null
          THEN [anns[i] EXCEPT !.worldDirection =
                  legacyBoxToWorldDirection(anns[i].box, anns[i].cameraRotation)]
          ELSE anns[i]]

\* The ids of the records migrateLegacyAnnotations calls
\* legacyBoxToWorldDirection for.
approximatedBy(anns) ==
  { anns[i].id : i \in { j \in 1..Len(anns) : needsApproximation(anns[j]) } }

\* saveAnnotations: the collection's JSON replaces what is under STORAGE_KEY.
saveAnnotations(anns) == anns

\* loadAnnotations: the stored collection is migrated, and written back if a
\* record gained its worldDirection.
loadAnnotations(stored) ==
  LET migrated == migrateLegacyAnnotations(stored)
      needsSaving == \E i \in 1..Len(stored) :
                       stored[i].worldDirection = Null
                       /\ migrated[i].worldDirection # Null
  IN  [annotations |-> migrated,
       store |-> IF needsSaving THEN saveAnnotations(migrated) ELSE stored]

\* saveProjectFile: the project written to the file.
saveProjectFile(anns) == [annotations |-> anns]

\* loadProjectFile: the project read from the file, its annotations migrated;
\* the file stays as it is.
loadProjectFile(file) ==
  [file EXCEPT !.annotations = migrateLegacyAnnotations(file.annotations)]

\* ------------------------------------------------------------------ inputs
\* Stored boxes, as fractions (thousandths) of the viewport: one around the
\* centre of the view and one to its right.
CentreBox == [x |-> 300, y |-> 300, width |-> 400, height |-> 400]
RightBox == [x |-> 700, y |-> 400, width |-> 300, height |-> 200]

StoredIds == 1..MaxStored

\* Stored records: written before worldDirection existed, without and with a
\* recorded pose; written since; and with neither a direction nor a box.
StoredKinds == { "legacy", "legacyPosed", "world", "bare" }

StoredRecord(kind, id, time) ==
  [id |-> id,
   defectNumber |-> id,
   videoTime |-> time,
   worldDirection |-> IF kind = "world" THEN [phi |-> 0, theta |-> -1] ELSE Null,
   box |-> CASE kind = "legacy" -> CentreBox
             [] kind = "legacyPosed" -> RightBox
             [] kind = "world" -> RightBox
             [] OTHER -> Null,
   cameraRotation |-> IF kind \in { "legacyPosed", "world" }
                      THEN [phi |-> 0, theta |-> 0] ELSE Null,
   screenshotDataUrl |-> [empty |-> TRUE, frame |-> FALSE, overlay |-> FALSE,
                          pending |-> FALSE, current |-> FALSE]]

\* What localStorage holds when the app starts: up to MaxStored records of
\* any kind, the i-th with id i; the first at time 0, the others at the end of
\* the video.
StoredCollections ==
  UNION { [1..n -> StoredKinds] : n \in 0..MaxStored }

Stored(kinds) ==
  [i \in 1..Len(kinds) |->
     StoredRecord(kinds[i], i, IF i = 1 THEN 0 ELSE Duration)]

\* Legacy boxes, as fractions (thousandths) of the viewport: left of, around
\* and right of the centre, above, around and below it, in two sizes.
LegacyBoxes ==
  { [x |-> x, y |-> y, width |-> s, height |-> s] :
      x \in { 0, 300, 800 }, y \in { 0, 300, 800 }, s \in { 100, 200 } }

\* Recorded camera poses of stored records.
RecordedPoses ==
  { [phi |-> 0, theta |-> 0], [phi |-> 2, theta |-> 3], [phi |-> -2, theta |-> -3] }

\* Stored records of every shape: legacy boxes without and with a recorded
\* pose, records with a worldDirection (with and without a box), and
\* records with neither.
StoredRecords ==
  { [StoredRecord("legacy", 1, 0) EXCEPT !.box = b] : b \in LegacyBoxes }
  \cup { [StoredRecord("legacyPosed", 1, 0) EXCEPT !.box = b,
                                                    !.cameraRotation = r] :
           b \in { c \in LegacyBoxes : c.y = c.x }, r \in RecordedPoses }
  \cup { [StoredRecord("world", 1, 0) EXCEPT !.worldDirection = r] :
           r \in RecordedPoses }
  \cup { [StoredRecord("world", 1, 0) EXCEPT !.box = Null] }
  \cup { StoredRecord("bare", 1, 0) }

\* Collections of up to MaxStored such records, the i-th with id i.
WithIds(anns) == [i \in 1..Len(anns) |-> [anns[i] EXCEPT !.id = i]]

MigrationInputs ==
  { WithIds(anns) : anns \in UNION { [1..n -> StoredRecords] : n \in 0..MaxStored } }

\* Playback times of a longer video, in tenths of a second, around an
\* annotation at 10.0 s: more than, exactly, and less than 1.0 s and 0.5 s
\* before and after it; and the times of a second annotation.
PlaybackTimes ==
  { 89, 90, 91, 94, 95, 96, 100, 104, 105, 106, 109, 110, 111, 125 }
FirstAnnotationTime == 100
SecondAnnotationTimes == { 110, 125 }

\* What the project file on disk holds when the app starts.
ProjectFiles ==
  { Null,
    [annotations |->
       [i \in 1..2 |->
          [Stored(<< "world", "legacyPosed" >>)[i]
             EXCEPT !.id = MaxStored + MaxAnnotations + i]]] }

\* Collections loaded from a project file before a capture: records with a
\* worldDirection, with the deprecated box and without it, all at time 0.
RedrawCollections ==
  { << >>,
    << StoredRecord("world", 1, 0) >>,
    << [StoredRecord("world", 1, 0) EXCEPT !.box = Null] >>,
    << StoredRecord("world", 1, 0),
       [StoredRecord("world", 2, 0) EXCEPT !.box = Null] >> }

\* Legacy boxes at the upper and the lower edge of the view, recorded under
\* poses that look straight up and straight down.
TopBox == [x |-> 400, y |-> 0, width |-> 200, height |-> 100]
BottomBox == [x |-> 400, y |-> 900, width |-> 200, height |-> 100]

PoseRecords ==
  << [StoredRecord("legacyPosed", 1, 0) EXCEPT
        !.box = TopBox, !.cameraRotation = [phi |-> 2, theta |-> 0]],
     [StoredRecord("legacyPosed", 2, 0) EXCEPT
        !.box = BottomBox, !.cameraRotation = [phi |-> -2, theta |-> 1]] >>

\* What localStorage holds when the app starts on such records, and the
\* project file with them.
PoseStores == { SubSeq(PoseRecords, 1, 1) }

PoseFile ==
  [annotations |->
     [i \in 1..2 |->
        [PoseRecords[i] EXCEPT !.id = MaxStored + MaxAnnotations + i]]]

\* Vertical pan drags: up by 45 degrees and down by 135.
TiltDeltas == { <<0, 1>>, <<0, -3>> }

\* Create gestures whose centres are the centre of the view and the point
\* 45 degrees beside it at the same height (tan 45 / (aspect * tan(fov / 2))
\* = 0.652 of the half width).
CentredPressPoints == { [x |-> 696, y |-> 300] }
CentredDragPoints == { [x |-> 1304, y |-> 700], [x |-> 0, y |-> 700] }

\* What the compositing does while poses are followed.
PoseOutcomes == { "ok", "noRenderer" }

\* Angular sizes asked of getAnnotationBox, in degrees (5 is its default).
BoxSizeDegrees == { 0, 1, 2, 5, 10, 45, 90 }

\* Pointer positions of the create gesture, in pixels of the overlay: where
\* the right button goes down, and where the pointer is dragged to (a box
\* around the centre of the view, and one to the right of it).
PressPoints == { [x |-> 600, y |-> 300] }
DragPoints == { [x |-> 1400, y |-> 700], [x |-> 2000, y |-> 700] }

\* Pan drags (deltaX * 0.005, deltaY * 0.005), in units of 45 degrees.
PanDeltas == { <<2, 0>>, <<-2, 0>> }

\* What the environment makes of captureScreenshot's compositing.
CompositeOutcomes ==
  { "ok", "noRenderer", "noContext", "rendererThrowsVideoOk",
    "rendererThrowsVideoThrows", "overlayThrows", "toDataURLThrows" }

\* ------------------------------------------------------------------- state
VARIABLES
  annotations,          \* App: the annotation collection (a sequence)
  annotationMode,       \* App: annotation mode toggle
  currentVideoTime,     \* App: playback time reported by the video
  videoReady,           \* App: onVideoReady has handed over the player's functions
  paused,               \* the video element's paused flag
  cameraRotation,       \* Video360Player: cameraRotationRef.current
  camera,               \* Video360Player: cameraRef.current, as the pose it looks along, or Null
  isDrawing,            \* overlay: isDrawingRef.current
  startPos,             \* overlay: startPosRef.current
  currentBox,           \* overlay: currentBoxRef.current
  showForm,             \* overlay: showForm
  formData,             \* overlay: the form's classification fields
  pendingBox,           \* overlay: pendingBox
  pendingWorldDirection,\* overlay: pendingWorldDirection
  isCapturingScreenshot,\* overlay: the input barrier / capture flag
  pendingAnnotationForScreenshot, \* overlay: the one-shot pending-render value
  loop,                 \* overlay: the animation-frame redraw loop and what its closure holds
  surface,              \* overlay: what is drawn on the overlay canvas
  cap,                  \* the running handleFormSubmit: its position and closure
  creating,             \* finished captures still awaiting onAnnotationCreate
  started,              \* captures begun so far
  handed,               \* calls of onAnnotationCreate so far
  touched,              \* the surface was cleared or drawn after the capture's manual redraw
  store,                \* localStorage: the collection under STORAGE_KEY
  projectFile,          \* the project file on disk, or Null
  videoUrl,             \* App: a video is loaded (player and overlay are mounted)
  shouldStayPaused,     \* App: set by a click in the annotation list
  playBlocked,          \* player: the current video element pauses again on 'play'
  restoreTimer,         \* App: the pose handleAnnotationClick restores after 100 ms
  loaded,               \* App: the mount effects have run
  rightButton,          \* the pointer: the right mouse button is held down
  recentProjectsFile    \* recent-projects.json in the user-data folder

vars == << annotations, annotationMode, currentVideoTime, videoReady, paused,
           cameraRotation, camera, isDrawing, startPos, currentBox, showForm,
           formData, pendingBox, pendingWorldDirection, isCapturingScreenshot,
           pendingAnnotationForScreenshot, loop, surface, cap, creating,
           started, handed, touched, store, projectFile,
           videoUrl, shouldStayPaused, playBlocked, restoreTimer, loaded,
           rightButton, recentProjectsFile >>

appVars == << annotations, annotationMode, currentVideoTime, videoReady >>
playerVars == << paused, cameraRotation, camera >>
gestureVars == << isDrawing, startPos, currentBox, rightButton >>
formVars == << showForm, formData, pendingBox, pendingWorldDirection >>
captureVars == << isCapturingScreenshot, pendingAnnotationForScreenshot,
                  cap, creating, started, handed >>
storageVars == << store, projectFile, loaded, recentProjectsFile >>
reviewVars == << videoUrl, shouldStayPaused, playBlocked, restoreTimer >>

\* A new THREE.PerspectiveCamera looks along -Z: the pose {phi: 0, theta: pi}.
NewCamera == [phi |-> 0, theta |-> 4]

\* The value 'N/A' of a grade or DROPS score (the scores are 1 to 4).
NA == 0

\* The options of the form's Grade and DROPS selects.
Scores == { NA, 1, 2, 3, 4 }

\* calculateRiskIndex with 'N/A' counted as nothing.
calculateRiskIndexWithoutDefault(grade, drops) == grade * drops

\* calculateRiskIndex: Grade x DROPS, 'N/A' counted as 3.
calculateRiskIndex(grade, drops) ==
  LET gradeValue == IF grade = NA THEN 3 ELSE grade
      dropsValue == IF drops = NA THEN 3 ELSE drops
  IN  gradeValue * dropsValue

\* getRiskLevel: the band of a risk index.
getRiskLevel(riskIndex) ==
  IF riskIndex >= 1 /\ riskIndex <= 4 THEN "Low"
  ELSE IF riskIndex >= 5 /\ riskIndex <= 8 THEN "Medium"
  ELSE IF riskIndex >= 9 /\ riskIndex <= 12 THEN "High"
  ELSE IF riskIndex >= 13 /\ riskIndex <= 16 THEN "Extreme"
  ELSE "N/A"

EmptyFormData ==
  [primaryDescription |-> FALSE, secondaryDescription |-> FALSE,
   grade |-> NA, drops |-> NA]

\* The overlay canvas: the ids of the annotations with pixels on it, of those
\* stroked at their projection and of those stroked at their raw box
\* coordinates, and whether the pending and the drag rectangle are on it.
EmptySurface ==
  [anns |-> {}, projected |-> {}, legacy |-> {},
   pending |-> FALSE, current |-> FALSE]

\* The empty data URL ''.
EmptyShot == [empty |-> TRUE, frame |-> FALSE, overlay |-> FALSE,
              pending |-> FALSE, current |-> FALSE]

\* handleFormSubmit at rest; outcome and shot keep what the last capture's
\* compositing did.
IdleCap ==
  [pc |-> "idle", worldDirection |-> Null, box |-> Null, cameraRotation |-> Null,
   defectNumber |-> 0, videoTime |-> 0, active |-> {},
   grade |-> NA, drops |-> NA, riskIndex |-> 0, riskLevel |-> "N/A",
   outcome |-> "none", shot |-> EmptyShot]

\* ------------------------------------------------- collaborators' providers
\* handleGetCamera: null until onVideoReady, then cameraRef.current.
getCamera == IF videoReady THEN camera ELSE Null

\* handleGetCameraRotation: null until onVideoReady, then a copy of the ref.
getCameraRotation == IF videoReady THEN cameraRotation ELSE Null

\* --------------------------------------------------------------- the overlay
\* Variants of activeAnnotations: a window of half a second, and a window that
\* includes its ends.
activeAnnotationsHalfSecond(anns, t) ==
  { i \in 1..Len(anns) : 2 * Abs(anns[i].videoTime - t) < ActiveWindow }

activeAnnotationsInclusive(anns, t) ==
  { i \in 1..Len(anns) : Abs(anns[i].videoTime - t) <= ActiveWindow }

\* activeAnnotations: the indices of the annotations within 1.0 s of time t.
activeAnnotations(anns, t) ==
  { i \in 1..Len(anns) : Abs(anns[i].videoTime - t) < ActiveWindow }

HasDirection(ann) == ann.worldDirection # Null
HasBox(ann) == ann.box # Null

\* getAnnotationBox's default side: 5 degrees of the view, at least 20 px.
defaultBoxSize(screenHeight) ==
  LET boxSizePixels == Div(Div(screenHeight * 87266, 2 * TanHalfFov), 1000)
  IN  IF boxSizePixels < 20 THEN 20 ELSE boxSizePixels

\* A variant of getAnnotationBox without the 20 px minimum.
getAnnotationBoxWithoutFloor(worldDirection, screenWidth, screenHeight, cam, boxSizeDegrees) ==
  LET center == worldDirectionToScreen(worldDirection, screenWidth,
                                       screenHeight, cam)
      pixelsPerRadian == Div(screenHeight * 1000, 2 * TanHalfFov)
      boxSizeRadians == boxSizeDegrees * MicroRadiansPerDegree
      boxSizePixels == Div(boxSizeRadians * pixelsPerRadian, 1000000)
  IN  IF center = Null THEN Null
      ELSE [x |-> center.x - Div(boxSizePixels, 2),
            y |-> center.y - Div(boxSizePixels, 2),
            width |-> boxSizePixels, height |-> boxSizePixels]

\* getAnnotationBox: a square of the given angular size, at least 20 px wide
\* and high, centred on the direction's projection; Null if that is Null.
getAnnotationBox(worldDirection, screenWidth, screenHeight, cam, boxSizeDegrees) ==
  LET center == worldDirectionToScreen(worldDirection, screenWidth,
                                       screenHeight, cam)
      pixelsPerRadian == Div(screenHeight * 1000, 2 * TanHalfFov)
      boxSizeRadians == boxSizeDegrees * MicroRadiansPerDegree
      boxSizePixels == Div(boxSizeRadians * pixelsPerRadian, 1000000)
      boxWidth == IF boxSizePixels < 20 THEN 20 ELSE boxSizePixels
      boxHeight == IF boxSizePixels < 20 THEN 20 ELSE boxSizePixels
  IN  IF center = Null THEN Null
      ELSE [x |-> center.x - Div(boxWidth, 2),
            y |-> center.y - Div(boxHeight, 2),
            width |-> boxWidth, height |-> boxHeight]

\* The rectangle stroked for a direction: centred on its projection, with the
\* stored box's size (or getAnnotationBox's default); Null if not projected.
projectedBox(worldDirection, box, cam) ==
  LET screenPos == worldDirectionToScreen(worldDirection,
                     Viewport.width, Viewport.height, cam)
      w == IF box # Null THEN Div(box.width * Viewport.width, 1000)
           ELSE defaultBoxSize(Viewport.height)
      h == IF box # Null THEN Div(box.height * Viewport.height, 1000)
           ELSE defaultBoxSize(Viewport.height)
  IN  IF screenPos = Null THEN Null
      ELSE [x |-> screenPos.x - Div(w, 2), y |-> screenPos.y - Div(h, 2),
            width |-> w, height |-> h]

\* The rectangle stroked for a legacy box: its stored fractions of the viewport.
legacyBox(box) ==
  [x |-> Div(box.x * Viewport.width, 1000),
   y |-> Div(box.y * Viewport.height, 1000),
   width |-> Div(box.width * Viewport.width, 1000),
   height |-> Div(box.height * Viewport.height, 1000)]

\* A stroked rectangle leaves pixels on the canvas only if it meets it.
onCanvas(b) ==
  /\ b # Null
  /\ b.x <= Viewport.width
  /\ b.x + b.width >= 0
  /\ b.y <= Viewport.height
  /\ b.y + b.height >= 0

\* draw(): clears the canvas, then the active annotations, the pending
\* annotation and the box being drawn.
draw(anns, t, cam, pend, cur, capturing) ==
  [ anns |-> { anns[i].id : i \in
               { j \in activeAnnotations(anns, t) :
                 onCanvas(IF HasDirection(anns[j]) /\ cam # Null
                          THEN projectedBox(anns[j].worldDirection,
                                            anns[j].box, cam)
                          ELSE IF HasBox(anns[j]) THEN legacyBox(anns[j].box)
                          ELSE Null) } },
    projected |-> { anns[i].id : i \in
                    { j \in activeAnnotations(anns, t) :
                      /\ HasDirection(anns[j])
                      /\ cam # Null
                      /\ projectedBox(anns[j].worldDirection,
                                      anns[j].box, cam) # Null } },
    legacy |-> { anns[i].id : i \in
                 { j \in activeAnnotations(anns, t) :
                   /\ ~(HasDirection(anns[j]) /\ cam # Null)
                   /\ HasBox(anns[j]) } },
    pending |-> /\ pend # Null
                /\ cam # Null
                /\ onCanvas(projectedBox(pend.worldDirection, pend.box, cam)),
    current |-> cur # Null /\ ~capturing ]

\* A variant of the effect that keeps the loop scheduled during a capture.
animationLoopNotSuspended(capturing, ready, anns) ==
  [running |-> TRUE, ready |-> ready, anns |-> anns]

\* The animation-frame effect: it schedules the loop unless a capture runs;
\* the loop's draw() reads the camera through the props of that render and
\* draws that render's annotations.
animationLoop(capturing, ready, anns) ==
  IF capturing THEN [running |-> FALSE, ready |-> FALSE, anns |-> << >>]
  ELSE [running |-> TRUE, ready |-> ready, anns |-> anns]

\* The effect runs again when the playback time or the number of active
\* annotations has changed.
effectRuns(anns, t, newAnns, newT) ==
  \/ newT # t
  \/ Cardinality(activeAnnotations(newAnns, newT))
       # Cardinality(activeAnnotations(anns, t))

\* The first draw() of animate(), run by the effect itself.
effectDraw(capturing, drawn, old) == IF capturing THEN old ELSE drawn

\* The pointer reaches the overlay div: the overlay is mounted, pointerEvents
\* is 'auto' and the blocking overlay is not mounted above it.
OverlayReceives == videoUrl /\ annotationMode /\ ~isCapturingScreenshot

\* The pointer reaches anything at all: the blocking overlay is not mounted.
BarrierInstalled == isCapturingScreenshot

Init ==
  /\ annotations = << >>
  /\ annotationMode = FALSE
  /\ currentVideoTime = 0
  /\ videoReady \in BOOLEAN
  /\ paused = ~videoReady
  /\ cameraRotation = [phi |-> 0, theta |-> 0]
  /\ camera = IF videoReady THEN NewCamera ELSE Null
  /\ isDrawing = FALSE
  /\ startPos = [x |-> 0, y |-> 0]
  /\ currentBox = Null
  /\ showForm = FALSE
  /\ formData = EmptyFormData
  /\ pendingBox = Null
  /\ pendingWorldDirection = Null
  /\ isCapturingScreenshot = FALSE
  /\ pendingAnnotationForScreenshot = Null
  /\ loop = animationLoop(FALSE, FALSE, << >>)
  /\ surface = EmptySurface
  /\ cap = IdleCap
  /\ creating = 0
  /\ started = 0
  /\ handed = 0
  /\ touched = FALSE
  /\ store = << >>
  /\ projectFile = Null
  /\ videoUrl = TRUE
  /\ shouldStayPaused = FALSE
  /\ playBlocked = FALSE
  /\ restoreTimer = Null
  /\ loaded = TRUE
  /\ rightButton = FALSE
  /\ recentProjectsFile = << >>

\* ------------------------------------------------- the overlay's handlers
\* The rectangle spanned by the press position and the pointer.
boxBetween(a, b) ==
  [x |-> IF a.x < b.x THEN a.x ELSE b.x,
   y |-> IF a.y < b.y THEN a.y ELSE b.y,
   width |-> Abs(b.x - a.x),
   height |-> Abs(b.y - a.y)]

\* The box as fractions (thousandths) of the viewport.
normalizedBox(b) ==
  [x |-> Div(b.x * 1000, Viewport.width),
   y |-> Div(b.y * 1000, Viewport.height),
   width |-> Div(b.width * 1000, Viewport.width),
   height |-> Div(b.height * 1000, Viewport.height)]

\* handlePauseVideo as the overlay calls it: pauses the App's video element.
pauseVideo == paused \/ videoReady

\* Gestures are followed until MaxAnnotations captures have begun.
GestureFollowed == started < MaxAnnotations

\* Right button pressed on the overlay.
handleMouseDown(p) ==
  /\ OverlayReceives
  /\ paused' = pauseVideo
  /\ isDrawing' = TRUE
  /\ startPos' = p
  /\ currentBox' = Null
  /\ UNCHANGED << storageVars, reviewVars, appVars, cameraRotation, camera, formVars, captureVars,
                  loop, surface, touched >>
  /\ rightButton' = TRUE

\* Pointer moved over the overlay during a drag: the box follows and draw()
\* runs.
handleMouseMove(q) ==
  /\ OverlayReceives
  /\ isDrawing
  /\ currentBox' = boxBetween(startPos, q)
  /\ surface' = draw(annotations, currentVideoTime, getCamera,
                     pendingAnnotationForScreenshot, currentBox',
                     isCapturingScreenshot)
  /\ touched' = isCapturingScreenshot
  /\ UNCHANGED << storageVars, reviewVars, appVars, playerVars, isDrawing, startPos, formVars,
                  captureVars, loop >>
  /\ UNCHANGED rightButton

\* Right button released on the overlay.
handleMouseUp ==
  /\ OverlayReceives
  /\ isDrawing
  /\ isDrawing' = FALSE
  /\ IF currentBox = Null
     THEN UNCHANGED << paused, formVars >>
     ELSE /\ paused' = pauseVideo
          /\ IF getCamera = Null \/ getCameraRotation = Null
             THEN UNCHANGED formVars
             ELSE /\ pendingBox' = normalizedBox(currentBox)
                  /\ pendingWorldDirection' =
                       screenToWorldDirection(
                         currentBox.x + Div(currentBox.width, 2),
                         currentBox.y + Div(currentBox.height, 2),
                         Viewport.width, Viewport.height, getCamera)
                  /\ formData' = EmptyFormData
                  /\ showForm' = TRUE
  /\ UNCHANGED << storageVars, reviewVars, appVars, cameraRotation, camera, startPos, currentBox,
                  captureVars, loop, surface, touched >>
  /\ rightButton' = FALSE

\* The right button is released with the pointer outside the overlay (over
\* the annotation list, the menu bar, or outside the window): the event goes
\* to the element under the pointer and the overlay's onMouseUp is not called.
releaseOutsideOverlay ==
  /\ rightButton
  /\ rightButton' = FALSE
  /\ UNCHANGED << storageVars, reviewVars, appVars, playerVars, isDrawing,
                  startPos, currentBox, formVars, captureVars, loop, surface,
                  touched >>

\* The form's primary-description select; a change resets the secondary.
selectPrimaryDescription ==
  /\ showForm
  /\ ~BarrierInstalled
  /\ formData' = [formData EXCEPT !.primaryDescription = TRUE,
                                  !.secondaryDescription = FALSE]
  /\ UNCHANGED << storageVars, reviewVars, appVars, playerVars, gestureVars, showForm, pendingBox,
                  pendingWorldDirection, captureVars, loop, surface, touched >>

\* The form's secondary-description select, offered once a primary is chosen.
selectSecondaryDescription ==
  /\ showForm
  /\ ~BarrierInstalled
  /\ formData.primaryDescription
  /\ formData' = [formData EXCEPT !.secondaryDescription = TRUE]
  /\ UNCHANGED << storageVars, reviewVars, appVars, playerVars, gestureVars, showForm, pendingBox,
                  pendingWorldDirection, captureVars, loop, surface, touched >>

\* The form's Grade select.
selectGrade(newValue) ==
  /\ showForm
  /\ ~BarrierInstalled
  /\ formData' = [formData EXCEPT !.grade = newValue]
  /\ UNCHANGED << storageVars, reviewVars, appVars, playerVars, gestureVars, showForm, pendingBox,
                  pendingWorldDirection, captureVars, loop, surface, touched >>

\* The form's DROPS select.
selectDrops(newValue) ==
  /\ showForm
  /\ ~BarrierInstalled
  /\ formData' = [formData EXCEPT !.drops = newValue]
  /\ UNCHANGED << storageVars, reviewVars, appVars, playerVars, gestureVars, showForm, pendingBox,
                  pendingWorldDirection, captureVars, loop, surface, touched >>

\* A variant of the Cancel button that drops the pending values but leaves the
\* form up.
handleFormCancelKeepingForm ==
  /\ showForm
  /\ ~BarrierInstalled
  /\ pendingBox' = Null
  /\ pendingWorldDirection' = Null
  /\ currentBox' = Null
  /\ UNCHANGED << storageVars, reviewVars, appVars, playerVars, isDrawing, startPos, showForm, formData,
                  captureVars, loop, surface, touched >>
  /\ UNCHANGED rightButton

\* The form's Cancel button.
handleFormCancel ==
  /\ showForm
  /\ ~BarrierInstalled
  /\ showForm' = FALSE
  /\ pendingBox' = Null
  /\ pendingWorldDirection' = Null
  /\ currentBox' = Null
  /\ UNCHANGED << storageVars, reviewVars, appVars, playerVars, isDrawing, startPos, formData,
                  captureVars, loop, surface, touched >>
  /\ UNCHANGED rightButton

\* ------------------------------------------------------------ the capture
\* A variant of STEPS 1-4 that leaves the form up and the drag box in place.
submittedKeepingFormAndBox ==
  [showForm |-> showForm, currentBox |-> currentBox,
   pendingAnnotationForScreenshot |->
     [worldDirection |-> pendingWorldDirection, box |-> pendingBox],
   isCapturingScreenshot |-> TRUE]

\* STEPS 1-4 of handleFormSubmit, for a valid form: what the overlay's own
\* fields become when Save is pressed.
submitted ==
  [showForm |-> FALSE, currentBox |-> Null,
   pendingAnnotationForScreenshot |->
     [worldDirection |-> pendingWorldDirection, box |-> pendingBox],
   isCapturingScreenshot |-> TRUE]

\* A variant of the validation that asks for the primary description only.
formIsCompleteWithoutSecondary(data) == data.primaryDescription

\* handleFormSubmit's validation: a primary and a secondary description are
\* selected (otherwise an alert is shown and the handler returns).
formIsComplete(data) == data.primaryDescription /\ data.secondaryDescription

\* The form's Save button.  An incomplete form (or no pending values) returns
\* at once; otherwise the annotation data is fixed from this render's values
\* and the capture starts.
handleFormSubmit ==
  /\ showForm
  /\ ~BarrierInstalled
  /\ started < MaxAnnotations
  /\ IF \/ pendingBox = Null
        \/ pendingWorldDirection = Null
        \/ ~formIsComplete(formData)
     THEN UNCHANGED vars
     ELSE /\ showForm' = submitted.showForm
          /\ currentBox' = submitted.currentBox
          /\ pendingAnnotationForScreenshot' =
               submitted.pendingAnnotationForScreenshot
          /\ isCapturingScreenshot' = submitted.isCapturingScreenshot
          /\ loop' = animationLoop(isCapturingScreenshot', videoReady,
                                   annotations)
          /\ cap' = [pc |-> "wait200",
                     worldDirection |-> pendingWorldDirection,
                     box |-> pendingBox,
                     cameraRotation |-> getCameraRotation,
                     defectNumber |-> Len(annotations) + 1,
                     grade |-> formData.grade,
                     drops |-> formData.drops,
                     riskIndex |->
                       calculateRiskIndex(formData.grade, formData.drops),
                     riskLevel |->
                       getRiskLevel(calculateRiskIndex(formData.grade,
                                                       formData.drops)),
                     videoTime |-> currentVideoTime,
                     active |-> activeAnnotations(annotations, currentVideoTime),
                     outcome |-> "none",
                     shot |-> EmptyShot]
          /\ started' = started + 1
          /\ UNCHANGED << storageVars, reviewVars, appVars, playerVars, isDrawing, startPos, formData,
                          pendingBox, pendingWorldDirection, surface, creating,
                          handed, touched, rightButton >>

\* STEP 6's drawing: after clearing, the annotations active at the click and
\* the pending annotation, each only if a camera is there and projects it.
manualRedraw(anns, active, cam, pend) ==
  [ anns |-> IF cam = Null THEN {}
             ELSE { anns[i].id : i \in
                    { j \in active :
                      onCanvas(IF HasDirection(anns[j])
                               THEN IF HasBox(anns[j])
                                    THEN projectedBox(anns[j].worldDirection,
                                                      anns[j].box, cam)
                                    ELSE Null
                               ELSE IF HasBox(anns[j])
                                    THEN legacyBox(anns[j].box)
                                    ELSE Null) } },
    projected |-> IF cam = Null THEN {}
                  ELSE { anns[i].id : i \in
                         { j \in active :
                           /\ HasDirection(anns[j])
                           /\ HasBox(anns[j])
                           /\ projectedBox(anns[j].worldDirection,
                                           anns[j].box, cam) # Null } },
    legacy |-> IF cam = Null THEN {}
               ELSE { anns[i].id : i \in
                      { j \in active :
                        ~HasDirection(anns[j]) /\ HasBox(anns[j]) } },
    pending |-> /\ cam # Null
                /\ onCanvas(projectedBox(pend.worldDirection, pend.box, cam)),
    current |-> FALSE ]

\* STEP 5 is over (200 ms): STEP 6 redraws the surface by hand.
Step6Redraw ==
  /\ cap.pc = "wait200"
  /\ surface' = manualRedraw(annotations, cap.active, getCamera,
                             [worldDirection |-> cap.worldDirection,
                              box |-> cap.box])
  /\ touched' = FALSE
  /\ cap' = [cap EXCEPT !.pc = "frames"]
  /\ UNCHANGED << storageVars, reviewVars, appVars, playerVars, gestureVars, formVars,
                  isCapturingScreenshot, pendingAnnotationForScreenshot, loop,
                  creating, started, handed >>

\* STEP 7: three nested animation frames pass; STEP 8's 150 ms wait follows.
Step7Frames ==
  /\ cap.pc = "frames"
  /\ cap' = [cap EXCEPT !.pc = "wait150"]
  /\ UNCHANGED << storageVars, reviewVars, appVars, playerVars, gestureVars, formVars,
                  isCapturingScreenshot, pendingAnnotationForScreenshot, loop,
                  surface, creating, started, handed, touched >>

\* A variant of STEP 11 that leaves the pending-render value as it is.
keptPending(pending) == pending

\* STEP 11 of handleFormSubmit: setPendingAnnotationForScreenshot(null).
clearedPending(pending) == Null

\* STEP 10: captureScreenshot is called if the video element is there (its
\* work is done two animation frames later); without the element the
\* screenshot stays '' and STEP 11 clears the pending-render value.
Step10Capture ==
  /\ cap.pc = "wait150"
  /\ IF videoReady
     THEN /\ cap' = [cap EXCEPT !.pc = "compositing"]
          /\ UNCHANGED pendingAnnotationForScreenshot
     ELSE /\ cap' = [cap EXCEPT !.pc = "wait100", !.outcome = "noVideo",
                                !.shot = EmptyShot]
          /\ pendingAnnotationForScreenshot' =
               clearedPending(pendingAnnotationForScreenshot)
  /\ UNCHANGED << storageVars, reviewVars, appVars, playerVars, gestureVars, formVars,
                  isCapturingScreenshot, loop, surface, creating, started,
                  handed, touched >>

\* The data URL the compositing produces: the renderer's frame (or the video
\* element's, as fallback) below the overlay surface as it is at that moment.
composite(outcome, overlaySurface) ==
  IF outcome \in {"noRenderer", "noContext"} THEN EmptyShot
  ELSE LET overlayDrawn == outcome # "overlayThrows"
       IN  [empty |-> FALSE,
            frame |-> outcome # "rendererThrowsVideoThrows",
            overlay |-> overlayDrawn,
            pending |-> overlayDrawn /\ overlaySurface.pending,
            current |-> overlayDrawn /\ overlaySurface.current]

\* captureScreenshot's inner animation frame: compositing and read-back.
\* toDataURL is called outside every try block, in the frame callback: if it
\* throws, the promise is never resolved and handleFormSubmit never resumes.
\* Otherwise the promise resolves and STEP 11 clears the pending-render value.
captureScreenshot(outcome) ==
  /\ cap.pc = "compositing"
  /\ IF outcome = "toDataURLThrows"
     THEN /\ cap' = [cap EXCEPT !.pc = "unresolved", !.outcome = outcome]
          /\ UNCHANGED pendingAnnotationForScreenshot
     ELSE /\ cap' = [cap EXCEPT !.pc = "wait100", !.outcome = outcome,
                                !.shot = composite(outcome, surface)]
          /\ pendingAnnotationForScreenshot' =
               clearedPending(pendingAnnotationForScreenshot)
  /\ UNCHANGED << storageVars, reviewVars, appVars, playerVars, gestureVars, formVars,
                  isCapturingScreenshot, loop, surface, creating, started,
                  handed, touched >>

\* handleAnnotationCreate's record for the data handleFormSubmit hands over.
newAnnotation(c) ==
  [id |-> MaxStored + started,
   defectNumber |-> c.defectNumber,
   grade |-> c.grade,
   drops |-> c.drops,
   riskIndex |-> c.riskIndex,
   riskLevel |-> c.riskLevel,
   videoTime |-> c.videoTime,
   worldDirection |-> c.worldDirection,
   box |-> c.box,
   cameraRotation |-> c.cameraRotation,
   screenshotDataUrl |-> c.shot]

\* A variant of handleAnnotationCreate that drops an annotation that comes
\* without a complete screenshot.
handleAnnotationCreateIfComplete(anns, c) ==
  IF c.shot.frame /\ c.shot.overlay THEN Append(anns, newAnnotation(c)) ELSE anns

\* handleAnnotationCreate: the new annotation is appended to the collection.
handleAnnotationCreate(anns, c) == Append(anns, newAnnotation(c))

\* handleAnnotationCreate awaits the screenshot's file being written when there
\* is a screenshot (the video comes from a file path); otherwise it is done at
\* once.
savesScreenshot(ann) == ~ann.screenshotDataUrl.empty

\* A variant of STEP 13 that leaves the barrier up when the annotation is
\* handed over.
finishedKeepingBarrier == [isCapturingScreenshot |-> TRUE]

\* STEP 13 of handleFormSubmit: what the capture flag becomes before the
\* annotation is handed over.
finished == [isCapturingScreenshot |-> FALSE]

\* STEP 12 is over (100 ms): STEP 13 removes the barrier, which restarts the
\* redraw loop, and the annotation is handed to onAnnotationCreate, which
\* appends it.  What follows the await (the pending values are dropped) runs
\* here if nothing is awaited, and in onAnnotationCreateSettled otherwise.
Step13Finish ==
  /\ cap.pc = "wait100"
  /\ isCapturingScreenshot' = finished.isCapturingScreenshot
  /\ annotations' = handleAnnotationCreate(annotations, cap)
  /\ store' = saveAnnotations(annotations')
  /\ handed' = handed + 1
  /\ loop' = animationLoop(isCapturingScreenshot', videoReady, annotations')
  /\ surface' = effectDraw(isCapturingScreenshot',
                  draw(annotations', currentVideoTime, getCamera,
                       pendingAnnotationForScreenshot, currentBox,
                       isCapturingScreenshot'),
                  surface)
  /\ touched' = FALSE
  /\ cap' = [IdleCap EXCEPT !.outcome = cap.outcome, !.shot = cap.shot]
  /\ IF savesScreenshot(newAnnotation(cap))
     THEN /\ creating' = creating + 1
          /\ UNCHANGED << pendingBox, pendingWorldDirection, currentBox >>
     ELSE /\ pendingBox' = Null
          /\ pendingWorldDirection' = Null
          /\ currentBox' = Null
          /\ UNCHANGED creating
  /\ UNCHANGED << projectFile, loaded, reviewVars, annotationMode,
                  currentVideoTime, videoReady, playerVars, isDrawing,
                  startPos, showForm, formData,
                  pendingAnnotationForScreenshot, started >>
  /\ UNCHANGED << rightButton, recentProjectsFile >>

\* onAnnotationCreate's promise settles: handleFormSubmit drops the pending
\* values.
onAnnotationCreateSettled ==
  /\ creating > 0
  /\ creating' = creating - 1
  /\ pendingBox' = Null
  /\ pendingWorldDirection' = Null
  /\ currentBox' = Null
  /\ UNCHANGED << storageVars, reviewVars, appVars, playerVars, isDrawing, startPos, showForm, formData,
                  isCapturingScreenshot, pendingAnnotationForScreenshot, cap,
                  started, handed, loop, surface, touched >>
  /\ UNCHANGED rightButton

\* animate(): one turn of the redraw loop.
animate ==
  /\ loop.running
  /\ surface' = draw(loop.anns, currentVideoTime,
                     IF loop.ready THEN camera ELSE Null,
                     pendingAnnotationForScreenshot, currentBox,
                     isCapturingScreenshot)
  /\ touched' = isCapturingScreenshot
  /\ UNCHANGED << storageVars, reviewVars, appVars, playerVars, gestureVars, formVars, captureVars,
                  loop >>

\* ----------------------------------------------------------- the player
\* A variant of the pan that does not clamp the pitch.
pannedUnclamped(rotation, d) ==
  [phi |-> rotation.phi + d[2], theta |-> rotation.theta - d[1]]

\* The pose after a left-button drag by d: yaw against the drag, pitch clamped.
panned(rotation, d) ==
  [phi |-> Clamp(-2, 2, rotation.phi + d[2]), theta |-> rotation.theta - d[1]]

\* Left-button drag on the renderer canvas (forwarded by the overlay in
\* annotation mode): the player's mousemove listener on window.
handlePan(d) ==
  /\ ~BarrierInstalled
  /\ camera # Null
  /\ Abs(panned(cameraRotation, d).theta) <= MaxTheta
  /\ cameraRotation' = panned(cameraRotation, d)
  /\ camera' = cameraRotation'
  /\ UNCHANGED << storageVars, reviewVars, appVars, paused, gestureVars, formVars, captureVars, loop,
                  surface, touched >>

\* Space pressed with the focus outside a text field: the player's keydown
\* listener on window toggles playback.
handleKeyDown ==
  /\ camera # Null
  /\ paused' = IF paused /\ playBlocked THEN TRUE ELSE ~paused
  /\ UNCHANGED << storageVars, reviewVars, appVars, cameraRotation, camera, gestureVars, formVars,
                  captureVars, loop, surface, touched >>

\* The playing (looping) video reports its time; the overlay's effect runs
\* again for the new time.
handleTimeUpdate ==
  /\ ~paused
  /\ camera # Null
  /\ currentVideoTime' = IF currentVideoTime + TimeStep > Duration THEN 0
                         ELSE currentVideoTime + TimeStep
  /\ loop' = IF isCapturingScreenshot THEN loop
             ELSE animationLoop(isCapturingScreenshot, videoReady, annotations)
  /\ surface' = effectDraw(isCapturingScreenshot,
                  draw(annotations, currentVideoTime', getCamera,
                       pendingAnnotationForScreenshot, currentBox,
                       isCapturingScreenshot),
                  surface)
  /\ UNCHANGED << storageVars, reviewVars, annotations, annotationMode,
                  videoReady, playerVars, gestureVars, formVars, captureVars,
                  touched >>

\* The Annotation Mode button (enabled once a video is loaded).
\* disablePanning is a dependency of the player's effect: the player is torn
\* down and set up again, with a new camera and a new video element (or none,
\* if the set-up fails).
toggleAnnotationMode(ok) ==
  /\ videoUrl
  /\ ~BarrierInstalled
  /\ annotationMode' = ~annotationMode
  /\ camera' = IF ok THEN NewCamera ELSE Null
  /\ videoReady' = (videoReady \/ ok)
  /\ paused' = ~(ok /\ ~shouldStayPaused)
  /\ playBlocked' = (playBlocked /\ ~ok)
  /\ currentVideoTime' = IF ok THEN 0 ELSE currentVideoTime
  /\ loop' = IF currentVideoTime' = currentVideoTime THEN loop
             ELSE animationLoop(isCapturingScreenshot, videoReady', annotations)
  /\ surface' = IF currentVideoTime' = currentVideoTime THEN surface
                ELSE draw(annotations, currentVideoTime',
                          IF videoReady' THEN camera' ELSE Null,
                          pendingAnnotationForScreenshot, currentBox,
                          isCapturingScreenshot)
  /\ UNCHANGED << storageVars, videoUrl, shouldStayPaused, restoreTimer,
                  annotations, cameraRotation, gestureVars, formVars,
                  captureVars, touched >>

\* -------------------------------------------------------------- the App
\* Nothing is being drawn, confirmed, captured or handed over.  (The inputs to
\* the annotation list, the play button and the File menu are followed from
\* such states.)
AtRest ==
  loaded /\ ~isDrawing /\ ~showForm /\ cap.pc = "idle" /\ creating = 0

\* No redraw loop: the overlay is not mounted.
NoLoop == [running |-> FALSE, ready |-> FALSE, anns |-> << >>]

\* The Delete button of the i-th entry of the annotation list: the record with
\* that id is filtered out, the save effect stores the collection, and the
\* overlay's effect runs again if the number of active annotations changed.
handleAnnotationDelete(i) ==
  /\ AtRest
  /\ i \in 1..Len(annotations)
  /\ annotations' = SelectSeq(annotations,
                              LAMBDA ann : ann.id # annotations[i].id)
  /\ store' = saveAnnotations(annotations')
  /\ IF videoUrl /\ effectRuns(annotations, currentVideoTime,
                                annotations', currentVideoTime)
     THEN /\ loop' = animationLoop(isCapturingScreenshot, videoReady,
                                   annotations')
          /\ surface' = draw(annotations', currentVideoTime, getCamera,
                             pendingAnnotationForScreenshot, currentBox,
                             isCapturingScreenshot)
     ELSE UNCHANGED << loop, surface >>
  /\ UNCHANGED << projectFile, loaded, reviewVars, annotationMode,
                  currentVideoTime, videoReady, playerVars, gestureVars,
                  formVars, captureVars, touched >>
  /\ UNCHANGED recentProjectsFile

\* A click on the i-th entry of the annotation list, once the player has
\* handed over its functions.  shouldStayPaused is a dependency of the
\* player's effect: when it changes, the player is torn down and set up again
\* (ok: the set-up succeeds).  Then the seekToTime effect seeks the video,
\* pauses it and points the camera along the recorded pose; the same pose is
\* restored once more 100 ms later.  (A click is followed when no restore is
\* outstanding.)
handleAnnotationClick(i, ok) ==
  /\ AtRest
  /\ videoReady
  /\ restoreTimer = Null
  /\ i \in 1..Len(annotations)
  /\ LET ann == annotations[i]
         recreated == ~shouldStayPaused
         cam == IF recreated THEN (IF ok THEN NewCamera ELSE Null) ELSE camera
     IN  /\ shouldStayPaused' = TRUE
         /\ playBlocked' = TRUE
         /\ paused' = TRUE
         /\ currentVideoTime' = IF cam # Null THEN ann.videoTime
                                ELSE currentVideoTime
         /\ cameraRotation' = IF ann.cameraRotation # Null
                              THEN [ann.cameraRotation EXCEPT
                                      !.phi = Clamp(-2, 2, ann.cameraRotation.phi)]
                              ELSE cameraRotation
         /\ camera' = IF ann.cameraRotation # Null /\ cam # Null
                      THEN cameraRotation' ELSE cam
         /\ restoreTimer' = ann.cameraRotation
  /\ IF effectRuns(annotations, currentVideoTime,
                   annotations, currentVideoTime')
     THEN /\ loop' = animationLoop(isCapturingScreenshot, videoReady,
                                   annotations)
          /\ surface' = draw(annotations, currentVideoTime', camera',
                             pendingAnnotationForScreenshot, currentBox,
                             isCapturingScreenshot)
     ELSE UNCHANGED << loop, surface >>
  /\ UNCHANGED << storageVars, videoUrl, annotations, annotationMode,
                  videoReady, gestureVars, formVars, captureVars, touched >>

\* The 100 ms timer of handleAnnotationClick: restoreCameraView.
restoreTimerFires ==
  /\ restoreTimer # Null
  /\ cameraRotation' = [phi |-> Clamp(-2, 2, restoreTimer.phi),
                        theta |-> restoreTimer.theta]
  /\ camera' = IF camera # Null THEN cameraRotation' ELSE Null
  /\ restoreTimer' = Null
  /\ UNCHANGED << storageVars, videoUrl, shouldStayPaused, playBlocked,
                  appVars, paused, gestureVars, formVars, captureVars, loop,
                  surface, touched >>

\* The player's play/pause button.  Pressed on a paused video it calls
\* onPlayClick, which clears shouldStayPaused: if that was set, the player is
\* torn down and set up again (ok: the set-up succeeds) and the new video
\* plays from its start.
togglePlayPause(ok) ==
  /\ AtRest
  /\ camera # Null
  /\ IF paused /\ shouldStayPaused
     THEN /\ shouldStayPaused' = FALSE
          /\ playBlocked' = FALSE
          /\ camera' = IF ok THEN NewCamera ELSE Null
          /\ paused' = ~ok
          /\ currentVideoTime' = IF ok THEN 0 ELSE currentVideoTime
          /\ IF currentVideoTime' # currentVideoTime
             THEN /\ loop' = animationLoop(isCapturingScreenshot, videoReady,
                                           annotations)
                  /\ surface' = draw(annotations, currentVideoTime',
                                     IF videoReady THEN camera' ELSE Null,
                                     pendingAnnotationForScreenshot, currentBox,
                                     isCapturingScreenshot)
             ELSE UNCHANGED << loop, surface >>
     ELSE /\ paused' = ~paused
          /\ UNCHANGED << shouldStayPaused, playBlocked, camera,
                          currentVideoTime, loop, surface >>
  /\ UNCHANGED << storageVars, videoUrl, restoreTimer, annotations,
                  annotationMode, videoReady, cameraRotation, gestureVars,
                  formVars, captureVars, touched >>

\* A video file is chosen, and no project is loaded with it: the annotations
\* are cleared and the player is set up for the new video (ok: the set-up
\* succeeds); the overlay is mounted with the first video.
handleVideoFileSelect(ok) ==
  /\ AtRest
  /\ annotations' = << >>
  /\ store' = saveAnnotations(annotations')
  /\ videoUrl' = TRUE
  /\ camera' = IF ok THEN NewCamera ELSE Null
  /\ videoReady' = (videoReady \/ ok)
  /\ paused' = ~(ok /\ ~shouldStayPaused)
  /\ playBlocked' = (playBlocked /\ ~ok)
  /\ currentVideoTime' = IF ok THEN 0 ELSE currentVideoTime
  /\ IF ~videoUrl
     THEN /\ loop' = animationLoop(FALSE, FALSE, annotations')
          /\ surface' = draw(annotations', currentVideoTime', Null,
                             pendingAnnotationForScreenshot, currentBox, FALSE)
     ELSE IF effectRuns(annotations, currentVideoTime,
                        annotations', currentVideoTime')
     THEN /\ loop' = animationLoop(isCapturingScreenshot, videoReady',
                                   annotations')
          /\ surface' = draw(annotations', currentVideoTime',
                             IF videoReady' THEN camera' ELSE Null,
                             pendingAnnotationForScreenshot, currentBox,
                             isCapturingScreenshot)
     ELSE UNCHANGED << loop, surface >>
  /\ UNCHANGED << projectFile, loaded, shouldStayPaused, restoreTimer,
                  annotationMode, cameraRotation, gestureVars, formVars,
                  captureVars, touched >>
  /\ UNCHANGED recentProjectsFile

\* MAX_RECENT_PROJECTS.
MaxRecentProjects == 10

\* The path of the project file and the name of its video.
ProjectPath == "video.360annotator"
VideoFileName == "video.mp4"

\* A variant of the add-recent-project handler that does not remove the entry
\* the path already has.
addRecentProjectKeepingOld(projects, filePath, name) ==
  SubSeq(<< [filePath |-> filePath, name |-> name] >> \o projects,
         1, IF Len(projects) + 1 > MaxRecentProjects
            THEN MaxRecentProjects ELSE Len(projects) + 1)

\* The add-recent-project handler of the main process: the list is read from
\* the file, the entry with this path is removed, the new entry is put first,
\* the list is cut to MAX_RECENT_PROJECTS entries and written back.  (The
\* entry's lastOpened, the clock's reading, is left out.)
addRecentProject(projects, filePath, name) ==
  LET others == SelectSeq(projects, LAMBDA p : p.filePath # filePath)
      added == << [filePath |-> filePath, name |-> name] >> \o others
  IN  SubSeq(added, 1, IF Len(added) > MaxRecentProjects
                       THEN MaxRecentProjects ELSE Len(added))

\* The add-recent-project handler called with a path and a name.
ipcAddRecentProject(filePath, name) ==
  /\ recentProjectsFile' = addRecentProject(recentProjectsFile, filePath, name)
  /\ UNCHANGED << store, projectFile, loaded, reviewVars, appVars, playerVars,
                  gestureVars, formVars, captureVars, loop, surface, touched >>

\* File > Save Project: the annotations are written to the project file.
handleSaveProject ==
  /\ AtRest
  /\ videoUrl
  /\ Len(annotations) > 0
  /\ projectFile' = saveProjectFile(annotations)
  /\ UNCHANGED << store, loaded, reviewVars, appVars, playerVars,
                  gestureVars, formVars, captureVars, loop, surface, touched >>
  /\ recentProjectsFile' =
       addRecentProject(recentProjectsFile, ProjectPath, VideoFileName)

\* File > Load Project: the file's annotations, migrated, replace the
\* collection; the project's video is loaded if none is (ok: the player's
\* set-up succeeds).
handleLoadProject(ok) ==
  /\ AtRest
  /\ projectFile # Null
  /\ annotations' = loadProjectFile(projectFile).annotations
  /\ store' = saveAnnotations(annotations')
  /\ videoUrl' = TRUE
  /\ IF ~videoUrl
     THEN /\ camera' = IF ok THEN NewCamera ELSE Null
          /\ videoReady' = ok
          /\ paused' = ~ok
          /\ loop' = animationLoop(FALSE, FALSE, annotations')
          /\ surface' = draw(annotations', currentVideoTime, Null,
                             pendingAnnotationForScreenshot, currentBox, FALSE)
     ELSE /\ UNCHANGED << camera, videoReady, paused >>
          /\ IF effectRuns(annotations, currentVideoTime,
                           annotations', currentVideoTime)
             THEN /\ loop' = animationLoop(isCapturingScreenshot, videoReady,
                                           annotations')
                  /\ surface' = draw(annotations', currentVideoTime, getCamera,
                                     pendingAnnotationForScreenshot,
                                     currentBox, isCapturingScreenshot)
             ELSE UNCHANGED << loop, surface >>
  /\ UNCHANGED << projectFile, loaded, shouldStayPaused, playBlocked,
                  restoreTimer, annotationMode, currentVideoTime,
                  cameraRotation, gestureVars, formVars, captureVars, touched >>
  /\ recentProjectsFile' =
       addRecentProject(recentProjectsFile, ProjectPath, VideoFileName)

\* The App's state before its mount effects and without a video.
Unmounted ==
  /\ annotations = << >>
  /\ loaded = FALSE
  /\ annotationMode = FALSE
  /\ currentVideoTime = 0
  /\ videoReady = FALSE
  /\ paused = TRUE
  /\ cameraRotation = [phi |-> 0, theta |-> 0]
  /\ camera = Null
  /\ isDrawing = FALSE
  /\ startPos = [x |-> 0, y |-> 0]
  /\ currentBox = Null
  /\ showForm = FALSE
  /\ formData = EmptyFormData
  /\ pendingBox = Null
  /\ pendingWorldDirection = Null
  /\ isCapturingScreenshot = FALSE
  /\ pendingAnnotationForScreenshot = Null
  /\ loop = NoLoop
  /\ surface = EmptySurface
  /\ cap = IdleCap
  /\ creating = 0
  /\ touched = FALSE
  /\ videoUrl = FALSE
  /\ shouldStayPaused = FALSE
  /\ playBlocked = FALSE
  /\ restoreTimer = Null
  /\ rightButton = FALSE

\* A variant in which the save effect comes before the load effect: the load
\* effect reads what the save effect wrote for the initial collection.
storeReadAfterInitialSave(stored, initial) == saveAnnotations(initial)

\* The store the load effect reads: the effects of a commit run in the order
\* they are declared, the load effect before the save effect, so the store is
\* read as it was left by the last run of the app.
storeReadByLoadEffect(stored, initial) == stored

\* The App's mount effects: the load effect reads and migrates the stored
\* collection (loadAnnotations writes it back if a record was migrated) and
\* sets it as the annotations; the save effect, which first runs on the
\* initial empty collection, runs again on the loaded one.
mountEffects ==
  /\ ~loaded
  /\ loaded' = TRUE
  /\ annotations' =
       loadAnnotations(storeReadByLoadEffect(store, annotations)).annotations
  /\ store' = saveAnnotations(annotations')
  /\ UNCHANGED << projectFile, reviewVars, annotationMode, currentVideoTime,
                  videoReady, playerVars, gestureVars, formVars, captureVars,
                  loop, surface, touched >>
  /\ UNCHANGED recentProjectsFile

\* The app is closed and started again (followed when nothing is being drawn,
\* confirmed or captured): what is in memory is gone, what is stored stays.
reload ==
  /\ AtRest
  /\ annotations' = << >>
  /\ loaded' = FALSE
  /\ annotationMode' = FALSE
  /\ currentVideoTime' = 0
  /\ videoReady' = FALSE
  /\ paused' = TRUE
  /\ cameraRotation' = [phi |-> 0, theta |-> 0]
  /\ camera' = Null
  /\ currentBox' = Null
  /\ startPos' = [x |-> 0, y |-> 0]
  /\ formData' = EmptyFormData
  /\ pendingBox' = Null
  /\ pendingWorldDirection' = Null
  /\ pendingAnnotationForScreenshot' = Null
  /\ loop' = NoLoop
  /\ surface' = EmptySurface
  /\ cap' = IdleCap
  /\ touched' = FALSE
  /\ videoUrl' = FALSE
  /\ shouldStayPaused' = FALSE
  /\ playBlocked' = FALSE
  /\ restoreTimer' = Null
  /\ UNCHANGED << store, projectFile, isDrawing, showForm,
                  isCapturingScreenshot, creating, started, handed >>
  /\ UNCHANGED << rightButton, recentProjectsFile >>

\* ------------------------------------------------------------ specification
Next ==
  \/ \E p \in PressPoints : GestureFollowed /\ handleMouseDown(p)
  \/ \E q \in DragPoints : GestureFollowed /\ handleMouseMove(q)
  \/ handleMouseUp
  \/ selectPrimaryDescription
  \/ selectSecondaryDescription
  \/ handleFormCancel
  \/ handleFormSubmit
  \/ Step6Redraw
  \/ Step7Frames
  \/ Step10Capture
  \/ \E outcome \in CompositeOutcomes : captureScreenshot(outcome)
  \/ Step13Finish
  \/ onAnnotationCreateSettled
  \/ animate
  \/ \E d \in PanDeltas : handlePan(d)
  \/ handleKeyDown
  \/ handleTimeUpdate
  \/ \E ok \in BOOLEAN : toggleAnnotationMode(ok)
  \/ \E i \in 1..(MaxStored + MaxAnnotations) : handleAnnotationDelete(i)
  \/ \E i \in 1..(MaxStored + MaxAnnotations), ok \in BOOLEAN :
       handleAnnotationClick(i, ok)
  \/ restoreTimerFires
  \/ \E ok \in BOOLEAN : togglePlayPause(ok)
  \/ \E ok \in BOOLEAN : handleVideoFileSelect(ok)
  \/ handleSaveProject
  \/ \E ok \in BOOLEAN : handleLoadProject(ok)
  \/ reload
  \/ mountEffects

Spec == Init /\ [][Next]_vars

\* The app starts, without a video, on what localStorage and the disk hold.
LoadInit ==
  \E kinds \in StoredCollections, file \in ProjectFiles :
    /\ Unmounted
    /\ store = Stored(kinds)
    /\ projectFile = file
    /\ started = 0
    /\ handed = 0
    /\ recentProjectsFile = << >>

\* The app starts on stored collections of every shape, and its mount effects
\* migrate them.
MigrationInit ==
  \E stored \in MigrationInputs :
    /\ Unmounted
    /\ store = stored
    /\ projectFile = Null
    /\ started = 0
    /\ handed = 0
    /\ recentProjectsFile = << >>

MigrationNext ==
  \/ mountEffects
  \/ reload

MigrationSpec == MigrationInit /\ [][MigrationNext]_vars

\* A video is loaded and paused at some playback time, the camera looks along
\* the recorded pose of two annotations with a worldDirection, and the overlay
\* has drawn them for that time.
PlaybackInit ==
  \E t \in PlaybackTimes, second \in SecondAnnotationTimes :
    /\ annotations = << StoredRecord("world", 1, FirstAnnotationTime),
                        StoredRecord("world", 2, second) >>
    /\ store = saveAnnotations(annotations)
    /\ projectFile = Null
    /\ loaded = TRUE
    /\ annotationMode = FALSE
    /\ currentVideoTime = t
    /\ videoReady = TRUE
    /\ paused = TRUE
    /\ cameraRotation = [phi |-> 0, theta |-> 0]
    /\ camera = cameraRotation
    /\ isDrawing = FALSE
    /\ startPos = [x |-> 0, y |-> 0]
    /\ currentBox = Null
    /\ showForm = FALSE
    /\ formData = EmptyFormData
    /\ pendingBox = Null
    /\ pendingWorldDirection = Null
    /\ isCapturingScreenshot = FALSE
    /\ pendingAnnotationForScreenshot = Null
    /\ loop = animationLoop(FALSE, TRUE, annotations)
    /\ surface = draw(annotations, t, camera, Null, Null, FALSE)
    /\ cap = IdleCap
    /\ creating = 0
    /\ started = 0
    /\ handed = 0
    /\ touched = FALSE
    /\ videoUrl = TRUE
    /\ shouldStayPaused = TRUE
    /\ playBlocked = TRUE
    /\ restoreTimer = Null
    /\ rightButton = FALSE
    /\ recentProjectsFile = << >>

\* The camera is panned, the loop redraws, and annotations are clicked in the
\* list and deleted.
PlaybackNext ==
  \/ animate
  \/ \E d \in PanDeltas : handlePan(d)
  \/ \E i \in 1..2 : handleAnnotationClick(i, TRUE)
  \/ restoreTimerFires
  \/ \E i \in 1..2 : handleAnnotationDelete(i)

PlaybackSpec == PlaybackInit /\ [][PlaybackNext]_vars

\* The steps that review stored annotations: the player's, the annotation
\* list's and the File menu's (the create gesture is not followed).
ReviewNext ==
  \/ animate
  \/ \E d \in PanDeltas : handlePan(d)
  \/ handleKeyDown
  \/ handleTimeUpdate
  \/ \E ok \in BOOLEAN : toggleAnnotationMode(ok)
  \/ \E i \in 1..(MaxStored + MaxAnnotations) : handleAnnotationDelete(i)
  \/ \E i \in 1..(MaxStored + MaxAnnotations), ok \in BOOLEAN :
       handleAnnotationClick(i, ok)
  \/ restoreTimerFires
  \/ \E ok \in BOOLEAN : togglePlayPause(ok)
  \/ \E ok \in BOOLEAN : handleVideoFileSelect(ok)
  \/ handleSaveProject
  \/ \E ok \in BOOLEAN : handleLoadProject(ok)
  \/ reload
  \/ mountEffects

LoadedSpec == LoadInit /\ [][ReviewNext]_vars

\* The steps of a running capture: timers and animation frames.
CaptureNext ==
  \/ Step6Redraw
  \/ Step7Frames
  \/ Step10Capture
  \/ \E outcome \in CompositeOutcomes : captureScreenshot(outcome)
  \/ Step13Finish

\* The steps of the overlay and the player on one video.
OverlayNext ==
  \/ \E p \in PressPoints : GestureFollowed /\ handleMouseDown(p)
  \/ \E q \in DragPoints : GestureFollowed /\ handleMouseMove(q)
  \/ handleMouseUp
  \/ selectPrimaryDescription
  \/ selectSecondaryDescription
  \/ handleFormCancel
  \/ handleFormSubmit
  \/ Step6Redraw
  \/ Step7Frames
  \/ Step10Capture
  \/ \E outcome \in CompositeOutcomes : captureScreenshot(outcome)
  \/ Step13Finish
  \/ onAnnotationCreateSettled
  \/ animate
  \/ \E d \in PanDeltas : handlePan(d)
  \/ handleKeyDown
  \/ handleTimeUpdate
  \/ \E ok \in BOOLEAN : toggleAnnotationMode(ok)

\* Timers and animation frames keep firing.
FairSpec == Init /\ [][OverlayNext]_vars /\ WF_vars(CaptureNext)

\* Create gestures interleaved with a running and a finishing capture: one
\* more gesture is followed after the last capture has begun.
RaceNext ==
  \/ \E ok \in BOOLEAN : toggleAnnotationMode(ok)
  \/ \E p \in PressPoints : started <= MaxAnnotations /\ handleMouseDown(p)
  \/ \E q \in DragPoints : started <= MaxAnnotations /\ handleMouseMove(q)
  \/ handleMouseUp
  \/ selectPrimaryDescription
  \/ selectSecondaryDescription
  \/ handleFormCancel
  \/ handleFormSubmit
  \/ Step6Redraw
  \/ Step7Frames
  \/ Step10Capture
  \/ \E outcome \in CompositeOutcomes : captureScreenshot(outcome)
  \/ Step13Finish
  \/ onAnnotationCreateSettled

RaceSpec == Init /\ [][RaceNext]_vars

\* A video is open on a collection loaded from a project file, and the
\* overlay and the player take their steps.
RedrawInit ==
  \E anns \in RedrawCollections :
    /\ annotations = anns
    /\ store = saveAnnotations(anns)
    /\ projectFile = Null
    /\ loaded = TRUE
    /\ annotationMode = FALSE
    /\ currentVideoTime = 0
    /\ videoReady = TRUE
    /\ paused = FALSE
    /\ cameraRotation = [phi |-> 0, theta |-> 0]
    /\ camera = NewCamera
    /\ isDrawing = FALSE
    /\ startPos = [x |-> 0, y |-> 0]
    /\ currentBox = Null
    /\ showForm = FALSE
    /\ formData = EmptyFormData
    /\ pendingBox = Null
    /\ pendingWorldDirection = Null
    /\ isCapturingScreenshot = FALSE
    /\ pendingAnnotationForScreenshot = Null
    /\ loop = animationLoop(FALSE, TRUE, anns)
    /\ surface = draw(anns, 0, camera, Null, Null, FALSE)
    /\ cap = IdleCap
    /\ creating = 0
    /\ started = 0
    /\ handed = 0
    /\ touched = FALSE
    /\ videoUrl = TRUE
    /\ shouldStayPaused = FALSE
    /\ playBlocked = FALSE
    /\ restoreTimer = Null
    /\ rightButton = FALSE
    /\ recentProjectsFile = << >>

RedrawSpec == RedrawInit /\ [][OverlayNext]_vars

\* The app starts on stored legacy records and a project file; the project
\* is loaded, the view is panned, tilted and restored, and annotations are
\* created.
PoseInit ==
  \E stored \in PoseStores :
    /\ Unmounted
    /\ store = stored
    /\ projectFile = PoseFile
    /\ started = 0
    /\ handed = 0
    /\ recentProjectsFile = << >>

PoseNext ==
  \/ mountEffects
  \/ ~videoUrl /\ handleLoadProject(TRUE)
  \/ toggleAnnotationMode(TRUE)
  \/ \E d \in TiltDeltas : handlePan(d)
  \/ \E i \in 1..(MaxStored + MaxAnnotations) : handleAnnotationClick(i, TRUE)
  \/ restoreTimerFires
  \/ \E p \in CentredPressPoints : GestureFollowed /\ handleMouseDown(p)
  \/ \E q \in CentredDragPoints : GestureFollowed /\ handleMouseMove(q)
  \/ handleMouseUp
  \/ selectPrimaryDescription
  \/ selectSecondaryDescription
  \/ handleFormCancel
  \/ handleFormSubmit
  \/ Step6Redraw
  \/ Step7Frames
  \/ Step10Capture
  \/ \E outcome \in PoseOutcomes : captureScreenshot(outcome)
  \/ Step13Finish
  \/ onAnnotationCreateSettled

PoseSpec == PoseInit /\ [][PoseNext]_vars

\* A video is open on a collection loaded from a project file; annotations
\* are deleted from the list and one is created.
NumberingNext ==
  \/ \E i \in 1..(MaxStored + MaxAnnotations) : handleAnnotationDelete(i)
  \/ toggleAnnotationMode(TRUE)
  \/ \E p \in PressPoints : GestureFollowed /\ handleMouseDown(p)
  \/ \E q \in DragPoints : GestureFollowed /\ handleMouseMove(q)
  \/ handleMouseUp
  \/ selectPrimaryDescription
  \/ selectSecondaryDescription
  \/ handleFormCancel
  \/ handleFormSubmit
  \/ Step6Redraw
  \/ Step7Frames
  \/ Step10Capture
  \/ \E outcome \in PoseOutcomes : captureScreenshot(outcome)
  \/ Step13Finish
  \/ onAnnotationCreateSettled

NumberingSpec == RedrawInit /\ [][NumberingNext]_vars

\* A video is open on a loaded collection; an annotation is drawn, graded on
\* the form and created.
RiskNext ==
  \/ toggleAnnotationMode(TRUE)
  \/ \E p \in PressPoints : GestureFollowed /\ handleMouseDown(p)
  \/ \E q \in DragPoints : GestureFollowed /\ handleMouseMove(q)
  \/ handleMouseUp
  \/ selectPrimaryDescription
  \/ selectSecondaryDescription
  \/ \E newValue \in Scores : selectGrade(newValue)
  \/ \E newValue \in Scores : selectDrops(newValue)
  \/ handleFormCancel
  \/ handleFormSubmit
  \/ Step6Redraw
  \/ Step7Frames
  \/ Step10Capture
  \/ \E outcome \in PoseOutcomes : captureScreenshot(outcome)
  \/ Step13Finish
  \/ onAnnotationCreateSettled

RiskSpec == RedrawInit /\ [][RiskNext]_vars

\* A video is open on a loaded collection; the pointer presses, drags and
\* releases the right button, over the overlay and outside it.
PointerNext ==
  \/ toggleAnnotationMode(TRUE)
  \/ \E p \in PressPoints : handleMouseDown(p)
  \/ \E q \in DragPoints : handleMouseMove(q)
  \/ handleMouseUp
  \/ releaseOutsideOverlay
  \/ selectPrimaryDescription
  \/ selectSecondaryDescription
  \/ handleFormCancel

PointerSpec == RedrawInit /\ [][PointerNext]_vars

\* Project paths: those of a full list and one more.
RecentPaths ==
  << "a.360annotator", "b.360annotator", "c.360annotator", "d.360annotator",
     "e.360annotator", "f.360annotator", "g.360annotator", "h.360annotator",
     "i.360annotator", "j.360annotator", "k.360annotator" >>

\* The list after the first MaxRecentProjects paths were added, last first.
FullRecentList ==
  [i \in 1..MaxRecentProjects |->
     [filePath |-> RecentPaths[i], name |-> VideoFileName]]

\* The paths and video names the handler is called with: the first, a middle
\* and the last path of a full list, and one that is not in it.
AddedPaths ==
  { RecentPaths[1], RecentPaths[5], RecentPaths[MaxRecentProjects],
    RecentPaths[MaxRecentProjects + 1] }
AddedNames == { VideoFileName, "other.mp4" }

\* The app starts with the list earlier runs left: empty, partly filled, full.
RecentInit ==
  \E n \in 0..MaxRecentProjects :
    /\ Unmounted
    /\ store = << >>
    /\ projectFile = Null
    /\ started = 0
    /\ handed = 0
    /\ recentProjectsFile = SubSeq(FullRecentList, 1, n)

RecentNext ==
  \E filePath \in AddedPaths, name \in AddedNames :
    ipcAddRecentProject(filePath, name)

RecentSpec == RecentInit /\ [][RecentNext]_vars

\* ------------------------------------------------------ the overlay's states
Drawing == isDrawing
PendingConfirmation == showForm
CapturingScreenshot == isCapturingScreenshot
Idle == ~Drawing /\ ~PendingConfirmation /\ ~CapturingScreenshot

\* The surface is about to be read back.
AtReadBack == cap.pc = "compositing"

\* The user's inputs: pointer and keyboard.
UserInput ==
  \/ \E p \in PressPoints : GestureFollowed /\ handleMouseDown(p)
  \/ \E q \in DragPoints : GestureFollowed /\ handleMouseMove(q)
  \/ handleMouseUp
  \/ selectPrimaryDescription
  \/ selectSecondaryDescription
  \/ handleFormCancel
  \/ handleFormSubmit
  \/ \E d \in PanDeltas : handlePan(d)
  \/ handleKeyDown
  \/ \E ok \in BOOLEAN : toggleAnnotationMode(ok)

\* ------------------------------------------------------------------- claims
\* C1: whatever the camera pose and the providers' state at confirmation, the
\* overlay surface read back at the composite step contains the pending
\* annotation's box.
C1_PendingBoxOnSurfaceAtReadBack == AtReadBack => surface.pending

\* C2: at read-back the form has been dismissed, the drag rectangle has been
\* cleared and is not drawn on the surface, and it is not in the image read
\* back.
C2_FormAndDragRectangleAbsent ==
  /\ AtReadBack => (~showForm /\ currentBox = Null /\ ~surface.current)
  /\ ~cap.shot.current

C2_Witness ==
  /\ cap.pc = "wait100"
  /\ cap.outcome = "ok"
  /\ cap.shot.overlay
  /\ cap.shot.pending

\* C3: every capture that begins eventually ends with the barrier removed and
\* the redraw loop resumed, whatever compositing and read-back do.
C3_CaptureEnds ==
  isCapturingScreenshot ~> (~isCapturingScreenshot /\ loop.running)

\* C4: from the manual redraw until the read-back is over nothing else clears
\* or draws on the surface: the loop is not scheduled, no handler that draws
\* can run, and what is read back is what the manual redraw left.
C4_SurfaceUntouchedUntilReadBack ==
  /\ cap.pc \in {"frames", "wait150", "compositing"} =>
       (~touched /\ ~loop.running /\ ~OverlayReceives)
  /\ (cap.pc = "wait100" /\ cap.shot.overlay) =>
       (~touched /\ cap.shot.pending = surface.pending)

C4_Witness ==
  /\ cap.pc = "wait100"
  /\ cap.shot.overlay
  /\ cap.shot.pending
  /\ ~paused

\* C5: while the barrier is installed no user input changes the camera pose,
\* the playback state, the pending values or the collection.
C5_CaptureAtomicForUserInput ==
  [][(BarrierInstalled /\ UserInput) =>
       UNCHANGED << cameraRotation, camera, paused, pendingBox,
                    pendingWorldDirection, annotations >>]_vars

\* C6: when compositing fails or produces nothing (no renderer canvas, no 2D
\* context, a drawImage throws, no video element), the annotation is handed to
\* onAnnotationCreate exactly once, with the empty or partial screenshot.
FailedOutcomes ==
  { "noRenderer", "noContext", "rendererThrowsVideoOk",
    "rendererThrowsVideoThrows", "overlayThrows", "noVideo" }

ReleaseWithoutCamera ==
  /\ handleMouseUp
  /\ currentBox # Null
  /\ getCamera = Null \/ getCameraRotation = Null

C8_OnlyTheListedTransitions ==
  [][ /\ (~Drawing /\ Drawing') => Idle
      /\ (\E p \in PressPoints : handleMouseDown(p)) =>
           (~PendingConfirmation /\ ~CapturingScreenshot)
      /\ (~PendingConfirmation /\ PendingConfirmation') =>
           (Drawing /\ ~CapturingScreenshot)
      /\ (~CapturingScreenshot /\ CapturingScreenshot') =>
           (PendingConfirmation /\ ~Drawing) ]_vars

\* A user input that neither creates an annotation nor begins a capture.
HarmlessInput == UserInput /\ annotations' = annotations /\ started' = started

\* The inputs of an abort: releasing the gesture, cancelling the form, and the
\* Annotation Mode button (the overlay takes no gesture while the mode is off).
AbortStep ==
  \/ handleMouseUp
  \/ handleFormCancel
  \/ \E ok \in BOOLEAN : toggleAnnotationMode(ok)

\* Drawing or PendingConfirmation, before confirmation.
BeforeConfirmation ==
  (Drawing \/ PendingConfirmation) /\ ~CapturingScreenshot

\* Idle can be reached by one user input that creates nothing.
CanAbortAtOnce == ENABLED (HarmlessInput /\ Idle')

\* Idle can be reached by one, two, three inputs of an abort.
CanAbort1 == ENABLED (AbortStep /\ Idle')
CanAbort2 == ENABLED (AbortStep /\ (Idle' \/ CanAbort1'))
CanAbort3 == ENABLED (AbortStep /\ (Idle' \/ CanAbort2'))

C10_CancelReturnsToIdle ==
  [][handleFormCancel =>
       /\ Idle'
       /\ pendingWorldDirection' = Null
       /\ pendingBox' = Null
       /\ ~showForm'
       /\ annotations' = annotations]_vars

\* C11: running the legacy migrator twice gives what running it once gives,
\* and the second run approximates no direction: whatever the stored
\* collection is, before and after the mount effects have migrated it.
C11_MigrationIdempotent ==
  /\ migrateLegacyAnnotations(migrateLegacyAnnotations(store))
       = migrateLegacyAnnotations(store)
  /\ approximatedBy(migrateLegacyAnnotations(store)) = {}
  /\ loaded => /\ migrateLegacyAnnotations(annotations) = annotations
               /\ approximatedBy(annotations) = {}

\* The mount effects have migrated a collection with a legacy box that has no
\* recorded pose.
C11_Witness ==
  /\ loaded
  /\ \E i \in 1..Len(annotations) :
       /\ annotations[i].box # Null
       /\ annotations[i].cameraRotation = Null
       /\ annotations[i].worldDirection # Null

\* The fields of a record other than its worldDirection.
OtherFields(ann) == [ann EXCEPT !.worldDirection = Null]

\* C12: migrateLegacyAnnotations returns a collection of the same length and
\* order; a record that has a worldDirection, or neither a worldDirection nor
\* a box, is returned unchanged; a record with a box and no worldDirection
\* gains a worldDirection and keeps its box and every other field.
C12_MigrationKeepsRecords ==
  LET migrated == migrateLegacyAnnotations(store)
  IN  /\ Len(migrated) = Len(store)
      /\ \A i \in 1..Len(store) :
           /\ migrated[i].id = store[i].id
           /\ OtherFields(migrated[i]) = OtherFields(store[i])
           /\ IF store[i].worldDirection = Null /\ store[i].box # Null
              THEN migrated[i].worldDirection # Null
              ELSE migrated[i] = store[i]

\* The mount effects have migrated two records: one that gained its
\* worldDirection from its box and recorded pose, after one that had none to
\* gain.
C12_Witness ==
  /\ loaded
  /\ Len(annotations) = 2
  /\ annotations[1].worldDirection = Null
  /\ annotations[1].box = Null
  /\ annotations[2].worldDirection = [phi |-> 1, theta |-> 4]
  /\ annotations[2].box # Null
  /\ annotations[2].cameraRotation = [phi |-> 2, theta |-> 3]

\* C13: whenever a load migrates at least one record, the whole migrated
\* collection is written back, during that load, to the store it was loaded
\* from (localStorage for the load at mount, the project file for File > Load
\* Project), and nothing is written when nothing was migrated; so a later
\* load of the same store calls the approximation for no record.
C13_MigratedCollectionWrittenBack ==
  [][ /\ (~loaded /\ loaded') =>
           /\ store' = migrateLegacyAnnotations(store)
           /\ loadAnnotations(store).store = store'
           /\ approximatedBy(store') = {}
      /\ (\E ok \in BOOLEAN : handleLoadProject(ok)) =>
           /\ projectFile' = loadProjectFile(projectFile)
           /\ approximatedBy(projectFile'.annotations) = {} ]_vars

\* A record is kept as it is by a step, or no record of the new collection
\* has its id.
Kept(r, anns) == \E j \in 1..Len(anns) : anns[j] = r
Gone(r, anns) == \A j \in 1..Len(anns) : anns[j].id # r.id

\* The step is the Delete button of the list entry with that id.
DeletedBy(id) ==
  \E k \in 1..Len(annotations) :
    annotations[k].id = id /\ handleAnnotationDelete(k)

\* The step replaces the whole collection: a video file is chosen, or a
\* project is loaded.
CollectionReplaced ==
  \E ok \in BOOLEAN : handleVideoFileSelect(ok) \/ handleLoadProject(ok)

\* C14 (as the code has it): once a record has a worldDirection, no step
\* changes that worldDirection or any other field of it, in the stored
\* collection and in the App's state; a record disappears from the stored
\* collection only by its Delete button or when the whole collection is
\* replaced (a video file is chosen, a project is loaded), and from the App's
\* state also when the app restarts; creating an annotation keeps every
\* existing record.
C14_RecordWithDirectionImmutable ==
  [][ /\ \A i \in 1..Len(store) :
           HasDirection(store[i]) =>
             \/ Kept(store[i], store')
             \/ /\ Gone(store[i], store')
                /\ DeletedBy(store[i].id) \/ CollectionReplaced
      /\ \A i \in 1..Len(annotations) :
           HasDirection(annotations[i]) =>
             \/ Kept(annotations[i], annotations')
             \/ /\ Gone(annotations[i], annotations')
                /\ DeletedBy(annotations[i].id) \/ CollectionReplaced
                                               \/ ~loaded'
      /\ SubSeq(handleAnnotationCreate(annotations, cap), 1, Len(annotations))
           = annotations ]_vars

\* C14 as stated: the only change a stored record with a worldDirection
\* undergoes is removal by its Delete button.
C14_OnlyDeleteRemoves ==
  [][ \A i \in 1..Len(store) :
        HasDirection(store[i]) =>
          \/ Kept(store[i], store')
          \/ Gone(store[i], store') /\ DeletedBy(store[i].id) ]_vars

\* A project's migrated record is the only one left after the other was
\* deleted, and it was clicked in the list (seek and view restore).
C14_Witness ==
  /\ loaded /\ shouldStayPaused /\ restoreTimer = Null
  /\ Len(annotations) = 1
  /\ annotations[1].id = MaxStored + MaxAnnotations + 2
  /\ HasDirection(annotations[1])
  /\ store = annotations

\* C15: every annotation box on the surface, drawn on a refresh tick or by
\* the capture redraw, was positioned by projecting the annotation's
\* worldDirection through the camera; no annotation that has a worldDirection
\* was stroked at its raw LegacyBox coordinates.
C15_DrawnByProjection ==
  \A i \in 1..Len(annotations) :
    LET ann == annotations[i]
    IN  /\ ann.id \in surface.anns => ann.id \in surface.projected
        /\ HasDirection(ann) => ann.id \notin surface.legacy

Projects(ann, cam) ==
  /\ cam # Null
  /\ HasDirection(ann)
  /\ worldDirectionToScreen(ann.worldDirection, Viewport.width,
                            Viewport.height, cam) # Null

C19_ClickShowsTheAnnotation ==
  [][ /\ \A i \in 1..Len(annotations), ok \in BOOLEAN :
           ( /\ handleAnnotationClick(i, ok)
             /\ camera' # Null
             /\ annotations[i].cameraRotation # Null ) =>
               /\ currentVideoTime' = annotations[i].videoTime
               /\ camera' = annotations[i].cameraRotation
               /\ restoreTimer' = camera'
               /\ i \in activeAnnotations(annotations', currentVideoTime')
               /\ Projects(annotations[i], camera')
      /\ (restoreTimerFires /\ camera # Null) => camera' = restoreTimer ]_vars

\* C20: for every legacy box, legacyBoxToWorldDirection without a recorded
\* camera pose returns {phi: 0, theta: 0}, wherever the box is and whatever
\* its size; so every stored record with a box and neither a direction nor a
\* pose is migrated to that direction.
C20_NoPoseGivesZeroDirection ==
  /\ \A b \in LegacyBoxes :
       legacyBoxToWorldDirection(b, Null) = [phi |-> 0, theta |-> 0]
  /\ \A i \in 1..Len(store) :
       (needsApproximation(store[i]) /\ store[i].cameraRotation = Null) =>
         migrateLegacyAnnotations(store)[i].worldDirection
           = [phi |-> 0, theta |-> 0]
  /\ loaded =>
       \A i \in 1..Len(annotations) :
         (HasBox(annotations[i]) /\ annotations[i].cameraRotation = Null) =>
           annotations[i].worldDirection = [phi |-> 0, theta |-> 0]

\* A record whose box is in the top right corner of the view, without a
\* pose, was migrated at mount.
C20_Witness ==
  /\ loaded
  /\ \E i \in 1..Len(annotations) :
       /\ annotations[i].box = [x |-> 800, y |-> 0, width |-> 100, height |-> 100]
       /\ annotations[i].cameraRotation = Null
       /\ annotations[i].worldDirection = [phi |-> 0, theta |-> 0]

\* C27: whenever the confirmation form is shown, a pending direction and a
\* pending rectangle exist (so that Save with both descriptions chosen starts
\* a capture), under every interleaving of a finishing capture, its awaited
\* hand-over and its trailing cleanup with new gestures.
C27_FormHasPendingValues ==
  showForm => (pendingBox # Null /\ pendingWorldDirection # Null)

\* C28: whenever the player has handed over its functions and has a camera,
\* the pose getCameraRotation() returns is the camera's orientation: the
\* camera looks along (cos phi sin theta, sin phi, cos phi cos theta) of that
\* pose.
C28_PoseIsCameraOrientation ==
  (getCamera # Null /\ getCameraRotation # Null) =>
    DirVec(getCamera) = DirVec(getCameraRotation)

\* The drag rectangle's centre is the exact centre of the viewport.
BoxAtViewportCentre ==
  /\ currentBox # Null
  /\ 2 * currentBox.x + currentBox.width = Viewport.width
  /\ 2 * currentBox.y + currentBox.height = Viewport.height

\* C25: with a camera at identity pose (getCameraRotation() reports
\* {phi: 0, theta: 0}), the release of a gesture whose centre is the exact
\* centre of the viewport computes the forward direction {phi: 0, theta: 0}.
C25_CentreIsForward ==
  [][ ( /\ handleMouseUp
        /\ BoxAtViewportCentre
        /\ getCamera # Null
        /\ getCameraRotation = [phi |-> 0, theta |-> 0] ) =>
          pendingWorldDirection' = [phi |-> 0, theta |-> 0] ]_vars

\* The records of a collection, and the records the app holds in memory, in
\* localStorage and in the project file.
RecordsOf(anns) == { anns[i] : i \in 1..Len(anns) }

KnownRecords ==
  RecordsOf(annotations) \cup RecordsOf(store)
    \cup (IF projectFile = Null THEN {} ELSE RecordsOf(projectFile.annotations))

\* A step gives record a its worldDirection: no record with that id had one.
GainsDirection(a) ==
  /\ a.worldDirection # Null
  /\ ~\E r \in KnownRecords : r.id = a.id /\ r.worldDirection # Null

\* C26: every worldDirection a step stores, by creation or by migration, has
\* its theta in [0, 2 pi), that is in 0..7 units of 45 degrees.
C26_StoredThetaInRange ==
  [][ \A a \in RecordsOf(annotations') :
        GainsDirection(a) => a.worldDirection.theta \in 0..7 ]_vars

\* C29: between the release of the create gesture and its confirmation, the
\* creation context that Save stores with the pending direction (the pose
\* getCameraRotation() reports and the playback time) stays what it was at
\* the release, whatever the user does.
C29_ContextIsTheReleaseInstant ==
  [][ ( /\ showForm
        /\ showForm'
        /\ pendingWorldDirection # Null
        /\ pendingWorldDirection' = pendingWorldDirection ) =>
          ( /\ getCameraRotation' = getCameraRotation
            /\ currentVideoTime' = currentVideoTime ) ]_vars

\* What draw() would leave on the surface for the capture's camera, active
\* set (the annotations around the time of the click) and pending annotation.
TickDrawOfCapture ==
  draw(annotations, cap.videoTime, getCamera,
       [worldDirection |-> cap.worldDirection, box |-> cap.box], Null, TRUE)

\* C30: STEP 6's manual redraw strokes the boxes of the same active
\* annotations as draw() would for the same camera and active set, and the
\* pending annotation as draw() would.
C30_ManualRedrawDrawsLikeTick ==
  [][ Step6Redraw =>
        /\ surface'.anns = TickDrawOfCapture.anns
        /\ surface'.pending = TickDrawOfCapture.pending ]_vars

\* A pose or direction, if there is one, has its phi within [-pi/2, pi/2]
\* (-2..2 units of 45 degrees).
PhiInRange(d) == d = Null \/ d.phi \in -2..2

\* C21: after any sequence of pans, view restores, creations and migrations,
\* phi stays within [-pi/2, pi/2]: the camera's and the pose's, the pose a
\* restore is about to receive, and every created and migrated
\* worldDirection's and recorded pose's.
C21_PhiStaysInRange ==
  /\ PhiInRange(camera)
  /\ PhiInRange(cameraRotation)
  /\ PhiInRange(restoreTimer)
  /\ PhiInRange(pendingWorldDirection)
  /\ \A a \in RecordsOf(annotations) :
       PhiInRange(a.worldDirection) /\ PhiInRange(a.cameraRotation)

\* The view has been tilted down against the clamp; a migrated record's
\* direction was clamped (recorded pose straight up, box above the centre);
\* and a record was created under a camera looking straight up.
C21_Witness ==
  /\ camera # Null
  /\ camera.phi = -2
  /\ \E a \in RecordsOf(annotations) :
       /\ a.id > MaxStored + MaxAnnotations
       /\ a.cameraRotation.phi + legacyAngle(-((a.box.y + Div(a.box.height, 2) - 500) * 2)) > 2
       /\ a.worldDirection.phi = 2
  /\ \E a \in RecordsOf(annotations) :
       /\ a.id = MaxStored + 1
       /\ a.worldDirection.phi = 2

\* The direction exactly opposite a pose: theta + pi, -phi.
Opposite(pose) == [phi |-> -pose.phi, theta |-> pose.theta + 4]

\* C22: whatever the camera's pose, the direction exactly opposite its
\* forward vector projects to null; and {phi: 0, theta: pi} projects to null
\* for a camera facing forward (along the pose {phi: 0, theta: 0}).
C22_OppositeProjectsToNull ==
  /\ camera # Null =>
       worldDirectionToScreen(Opposite(camera), Viewport.width,
                              Viewport.height, camera) = Null
  /\ worldDirectionToScreen([phi |-> 0, theta |-> 4], Viewport.width,
                            Viewport.height, [phi |-> 0, theta |-> 0]) = Null

\* The camera is tilted and an active annotation lies exactly opposite its
\* forward vector.
C22_Witness ==
  /\ camera # Null
  /\ camera.phi # 0
  /\ \E a \in RecordsOf(annotations) :
       /\ a.worldDirection # Null
       /\ DirVec(a.worldDirection) = DirVec(Opposite(camera))
       /\ Abs(a.videoTime - currentVideoTime) < ActiveWindow

\* The directions the app holds: the annotations' and the pending one.
HeldDirections ==
  { a.worldDirection : a \in { r \in RecordsOf(annotations) :
                                 r.worldDirection # Null } }
    \cup (IF pendingWorldDirection # Null THEN { pendingWorldDirection } ELSE {})

\* C24: for the same direction, camera and viewport, a larger boxSizeDegrees
\* never gives a narrower or lower box than a smaller one (and a box exactly
\* when the smaller one gives a box), no edge is below 20 px, and the default
\* size is the box draw() strokes for a record without a stored box.
C24_BoxGrowsWithSizeAndKeepsFloor ==
  camera # Null =>
    \A d \in HeldDirections :
      /\ \A s1, s2 \in BoxSizeDegrees :
           s1 <= s2 =>
             LET b1 == getAnnotationBox(d, Viewport.width, Viewport.height,
                                        camera, s1)
                 b2 == getAnnotationBox(d, Viewport.width, Viewport.height,
                                        camera, s2)
             IN  /\ (b1 = Null) = (b2 = Null)
                 /\ b1 # Null =>
                      /\ b1.width <= b2.width
                      /\ b1.height <= b2.height
                      /\ b1.width >= 20
                      /\ b1.height >= 20
      /\ getAnnotationBox(d, Viewport.width, Viewport.height, camera, 5)
           = projectedBox(d, Null, camera)

\* The view has been panned and a held direction is in front of the camera:
\* at 1 degree its box is held at the 20 px minimum, at the default size and
\* at 45 degrees it is larger.
C24_Witness ==
  /\ camera # Null
  /\ camera.theta = -2
  /\ \E d \in HeldDirections :
       LET b(s) == getAnnotationBox(d, Viewport.width, Viewport.height,
                                    camera, s)
       IN  /\ b(1) # Null
           /\ b(1).width = 20
           /\ b(5).width > 20
           /\ b(45).height > b(5).height

\* The camera looks along the pose {phi: 0, theta: 0}, or along -Z as a
\* camera does that has not been turned since its creation.
IdentityPose(cam) == cam # Null /\ cam.phi = 0 /\ cam.theta \in { 0, 4 }

\* The centre of the drag rectangle, the pointer position handleMouseUp
\* converts.
BoxCentre ==
  [x |-> currentBox.x + Div(currentBox.width, 2),
   y |-> currentBox.y + Div(currentBox.height, 2)]

C32_NoPendingOutsideCapture ==
  ~isCapturingScreenshot =>
    /\ pendingAnnotationForScreenshot = Null
    /\ ~surface.pending

\* A capture whose compositing failed (the overlay could not be drawn into
\* the composite) has ended: the barrier is down and nothing is pending.
C32_Witness ==
  /\ cap.pc = "idle"
  /\ cap.outcome = "overlayThrows"
  /\ handed = 1
  /\ ~isCapturingScreenshot
  /\ pendingAnnotationForScreenshot = Null
  /\ ~surface.pending

C37_IncompleteFormStartsNoCapture ==
  [][ /\ ( /\ handleFormSubmit
           /\ (~formData.primaryDescription \/ ~formData.secondaryDescription) ) =>
           /\ PendingConfirmation'
           /\ ~isCapturingScreenshot'
           /\ UNCHANGED << pendingWorldDirection, pendingBox, formData,
                           pendingAnnotationForScreenshot, cap, loop, started,
                           handed, annotations, store >>
      /\ (~isCapturingScreenshot /\ isCapturingScreenshot') =>
           /\ formData.primaryDescription
           /\ formData.secondaryDescription ]_vars

\* The form is up with a pending direction and rectangle and a primary but no
\* secondary description: Save can be pressed and no capture has begun.
C37_Witness ==
  /\ PendingConfirmation
  /\ ENABLED handleFormSubmit
  /\ pendingWorldDirection # Null
  /\ pendingBox # Null
  /\ formData.primaryDescription
  /\ ~formData.secondaryDescription
  /\ ~isCapturingScreenshot
  /\ started = 0

\* The centre of a legacy box, in pixels of the viewport.
LegacyCentre(box) ==
  [x |-> Div((box.x + Div(box.width, 2)) * Viewport.width, 1000),
   y |-> Div((box.y + Div(box.height, 2)) * Viewport.height, 1000)]

\* A point is on the same side of the viewport centre as another,
\* horizontally and vertically; a point on a centre line constrains nothing.
SameSideHorizontally(p, s) ==
  /\ (p.x > Div(Viewport.width, 2) => s.x > Div(Viewport.width, 2))
  /\ (p.x < Div(Viewport.width, 2) => s.x < Div(Viewport.width, 2))

SameSideVertically(p, s) ==
  /\ (p.y > Div(Viewport.height, 2) => s.y > Div(Viewport.height, 2))
  /\ (p.y < Div(Viewport.height, 2) => s.y < Div(Viewport.height, 2))

\* The recorded pose is one the camera can be turned to with a horizon, and
\* the box centre is far enough from the viewport centre for the migration
\* to turn the direction away from the recorded pose.
OffCentre(ann) ==
  /\ ann.cameraRotation.phi = 0
  /\ legacyAngle((ann.box.x + Div(ann.box.width, 2) - 500) * 2) # 0
  /\ legacyAngle((ann.box.y + Div(ann.box.height, 2) - 500) * 2) # 0

\* C35: the mount effects migrate a legacy box with a recorded pose to a
\* worldDirection that worldDirectionToScreen, with the camera at that pose,
\* puts on the side of the viewport centre the box centre was on, above or
\* below and left or right, the latter as the direction screenToWorldDirection
\* gives for the box centre is put.
C35_MigrationKeepsSide ==
  [][mountEffects =>
       \A i \in 1..Len(store) :
         ( /\ needsApproximation(store[i])
           /\ store[i].cameraRotation # Null
           /\ OffCentre(store[i]) ) =>
           LET pose == store[i].cameraRotation
               centre == LegacyCentre(store[i].box)
               migrated == worldDirectionToScreen(
                             annotations'[i].worldDirection,
                             Viewport.width, Viewport.height, pose)
               pointed == worldDirectionToScreen(
                            screenToWorldDirection(centre.x, centre.y,
                              Viewport.width, Viewport.height, pose),
                            Viewport.width, Viewport.height, pose)
           IN  /\ pointed # Null
               /\ SameSideHorizontally(centre, pointed)
               /\ migrated # Null
               /\ SameSideVertically(centre, migrated)
               /\ SameSideHorizontally(centre, migrated)]_vars

\* C36: the defectNumber values of the annotations in the collection are
\* pairwise distinct, whatever was created and deleted.
C36_DefectNumbersDistinct ==
  \A i, j \in 1..Len(annotations) :
    i # j => annotations[i].defectNumber # annotations[j].defectNumber

\* The annotations created in this run (the stored ones have the ids up to
\* MaxStored).
Created == { i \in 1..Len(annotations) : annotations[i].id > MaxStored }

\* The score a grade or DROPS value counts as.
Counted(score) == IF score = NA THEN 3 ELSE score

\* C38: a created annotation has the grade and DROPS value selected on the
\* form, each N/A or 1 to 4; its riskIndex is grade x DROPS with N/A counted
\* as 3; its riskLevel is Low for 1-4, Medium for 5-8, High for 9-12 and
\* Extreme for 13-16, and never 'N/A'.  The same holds for the annotation
\* data of a capture in progress, which is that of the form.
C38_RiskIndexAndLevel ==
  /\ \A i \in Created :
       LET ann == annotations[i]
       IN  /\ ann.grade \in Scores
           /\ ann.drops \in Scores
           /\ ann.riskIndex = Counted(ann.grade) * Counted(ann.drops)
           /\ ann.riskIndex \in 1..16
           /\ ann.riskLevel = CASE ann.riskIndex \in 1..4 -> "Low"
                                [] ann.riskIndex \in 5..8 -> "Medium"
                                [] ann.riskIndex \in 9..12 -> "High"
                                [] ann.riskIndex \in 13..16 -> "Extreme"
                                [] OTHER -> "none"
           /\ ann.riskLevel # "N/A"
  /\ cap.pc # "idle" =>
       /\ cap.grade = formData.grade
       /\ cap.drops = formData.drops
       /\ cap.riskIndex = Counted(formData.grade) * Counted(formData.drops)

\* An annotation was created with grade N/A and DROPS 4: riskIndex 12, High.
C38_Witness ==
  \E i \in Created :
    /\ annotations[i].grade = NA
    /\ annotations[i].drops = 4
    /\ annotations[i].riskIndex = 12
    /\ annotations[i].riskLevel = "High"

\* C34: when the right button is released, wherever the pointer is, the
\* overlay is no longer in Drawing; and a pointer movement with no button
\* held does not change the drag rectangle.
C34_ReleaseEndsDrawing ==
  [][ /\ (rightButton /\ ~rightButton') => ~Drawing'
      /\ (~rightButton /\ \E q \in DragPoints : handleMouseMove(q)) =>
           currentBox' = currentBox ]_vars

\* No two entries of a recent-projects list have the same filePath.
DistinctPaths(projects) ==
  \A i, j \in 1..Len(projects) :
    i # j => projects[i].filePath # projects[j].filePath

\* C39: the recent-projects list has at most 10 entries and no two with the
\* same filePath, before and after every add-recent-project call, and after
\* a call the path it was called with is first, under the name it was called
\* with.
C39_RecentProjectsBounded ==
  [][ /\ Len(recentProjectsFile) <= 10
      /\ DistinctPaths(recentProjectsFile)
      /\ Len(recentProjectsFile') <= 10
      /\ DistinctPaths(recentProjectsFile')
      /\ \A filePath \in AddedPaths, name \in AddedNames :
           ipcAddRecentProject(filePath, name) =>
             /\ Len(recentProjectsFile') >= 1
             /\ recentProjectsFile'[1] = [filePath |-> filePath, name |-> name]
             /\ \A i \in 1..Len(recentProjectsFile) :
                  ( recentProjectsFile[i].filePath # filePath
                    /\ i < MaxRecentProjects ) =>
                    \E j \in 2..Len(recentProjectsFile') :
                      recentProjectsFile'[j] = recentProjectsFile[i] ]_vars

\* A path that was not listed has been added to a full list: it is first, the
\* list still has 10 entries, and the oldest entry is gone.
C39_Witness ==
  /\ Len(recentProjectsFile) = MaxRecentProjects
  /\ recentProjectsFile[1].filePath = RecentPaths[MaxRecentProjects + 1]
  /\ recentProjectsFile[MaxRecentProjects].filePath
       = RecentPaths[MaxRecentProjects - 1]
  /\ \A i \in 1..MaxRecentProjects :
       recentProjectsFile[i].filePath # RecentPaths[MaxRecentProjects]

============================================================================
